---- MODULE Spec2Model ----
(***************************************************************************)
(* Aelin_Page content pipeline: relative-link resolution, the docs         *)
(* snapshot cache and the asset endpoint.                                  *)
(*                                                                         *)
(* Strings are sequences of one-character strings, so that split, join,    *)
(* slice, indexOf and the percent-encoding are computed character by       *)
(* character as the source computes them.                                  *)
(***************************************************************************)
EXTENDS Integers, Sequences, FiniteSets, TLC

VARIABLES
  \* ---- link resolver (lib/docs.ts, lib/about.ts) ----
  docPath,        \* relPath of the document being rendered
  rawHref,        \* href / src found in the Markdown
  linkResult,     \* result of the last resolution
  \* ---- snapshot cache (lib/docs.ts) ----
  nodeEnv,        \* process.env.NODE_ENV
  rootExists,     \* fs.existsSync(FOUNDATION_ROOT)
  files,          \* content tree: path -> mtimeMs (0 = no such file)
  disk,           \* the persisted snapshot file .generated/docs-snapshot.json
  cachedSnapshot, \* module-level cache field
  cachedVersion,  \* module-level cache field
  lastAccess,     \* observation of the last getSnapshot() call
  sinceAccess,    \* what happened to the content files since that call
  \* ---- asset endpoint (pages/api/about-asset/[...path].ts) ----
  aboutRootExists,\* ABOUT_ROOT is present
  entries,        \* kind of every entry directly under ABOUT_ROOT
  reqSegments,    \* req.query.path of the request being handled
  reqEtag,        \* req.headers["if-none-match"] equals the computed ETag
  assetPc,        \* position of the handler (one label per await)
  absolutePath,   \* handler local
  statKind,       \* handler local: what fs.stat found
  response,       \* response sent / error raised
  sawMissing,     \* a filesystem call of the request found the target absent or a directory
  \* ---- heading hook of renderMarkdownToHtml (lib/docs.ts) ----
  mdHeadings,     \* heading tokens of the document being rendered, in order
  headingPos,     \* number of heading tokens rendered so far
  headingCounts,  \* closure variable: base -> number of uses
  headings,       \* closure variable: the heading list of the result
  htmlHeadings,   \* depth and id of every heading element emitted
  \* ---- buildDocsTree and findDocBySlug (lib/docs.ts) ----
  docsInput,      \* docs argument
  slugInput,      \* slug argument of findDocBySlug
  treeResult,     \* result of the last call
  \* ---- preprocessObsidianMarkdown (lib/markdown-utils.ts) ----
  embedInput,     \* the markdown argument, by its parts
  rootRelativeFlag, \* the rootRelative argument
  embedResult,    \* result of the last call
  \* ---- sanitizeHtml at the end of renderMarkdownToHtml (lib/docs.ts) ----
  rawHtml,        \* what marked.parse returned, as a list of nodes
  contentHtml,    \* html member of the result of the last render
  \* ---- docsManifestHandler (pages/api/docs-manifest.ts) and ----
  \* ---- getStaticProps (pages/docs/[[...slug]].tsx)           ----
  handlerKind,    \* which of the two is running
  handlerCalls,   \* what its accessor calls returned so far, in order
  handlerServed,  \* the parts it served
  \* ---- slugify (lib/markdown-utils.ts) ----
  slugText,       \* the input argument
  slugOnce,       \* slugify(input)
  slugTwice,      \* slugify(slugify(input))
  \* ---- docs search of DocsPage (pages/docs/[[...slug]].tsx) ----
  searchIndex,    \* the searchEntries the page holds
  searchQuery,    \* the text of the search field
  searchResults,  \* the searchResults memo
  \* ---- route-loading overlay of App (pages/_app.tsx) ----
  isRouteTransitioning, \* state: the overlay is shown
  routeAnimState,       \* state: "entering" or "leaving"
  routeShowTimerRef,    \* ref: id of the show timer, 0 for null
  routeSafetyTimerRef,  \* ref: id of the safety timer, 0 for null
  pendingTimers,        \* the timers of the window that are set and not fired
  timersSet,            \* number of setTimeout calls so far (the last id)
  routeInFlight,        \* the router has started a route change and not ended it
  lastRouteSignal,      \* the last router event or safety timeout delivered
  appMounted,           \* the effect of App is in place
  \* ---- navigation state of DocsPage (pages/docs/[[...slug]].tsx) ----
  isRouteLoading,       \* state: the content is non-interactive
  optimisticActivePath, \* state: relPath shown as active ahead of the route
  currentPath,          \* relPath of the document the page shows
  navPush,              \* url the link handed to the router, not yet started
  navInFlight,          \* url of the route change in progress
  navClicks,            \* number of clicks so far
  docsMounted           \* the docs page is the page shown

pathVars  == <<docPath, rawHref, linkResult>>
cacheVars == <<nodeEnv, rootExists, files, disk, cachedSnapshot,
               cachedVersion, lastAccess, sinceAccess>>
assetVars == <<aboutRootExists, entries, reqSegments, reqEtag, assetPc,
               absolutePath, statKind, response, sawMissing>>
renderVars == <<mdHeadings, headingPos, headingCounts, headings, htmlHeadings>>
treeVars == <<docsInput, slugInput, treeResult>>
embedVars == <<embedInput, rootRelativeFlag, embedResult>>
libVars == <<renderVars, treeVars, embedVars>>
sanitizeVars == <<rawHtml, contentHtml>>
handlerVars == <<handlerKind, handlerCalls, handlerServed>>
slugVars == <<slugText, slugOnce, slugTwice>>
searchVars == <<searchIndex, searchQuery, searchResults>>
overlayVars == <<isRouteTransitioning, routeAnimState, routeShowTimerRef,
                 routeSafetyTimerRef, pendingTimers, timersSet, routeInFlight,
                 lastRouteSignal, appMounted>>
navVars == <<isRouteLoading, optimisticActivePath, currentPath, navPush,
             navInFlight, navClicks, docsMounted>>
clientVars == <<overlayVars, navVars>>
pageVars == <<sanitizeVars, handlerVars, slugVars, searchVars, clientVars>>
vars == <<pathVars, cacheVars, assetVars, libVars, pageVars>>

(***************************************************************************)
(* Bounds                                                                  *)
(***************************************************************************)
MaxLen == 4        \* longest enumerated href
MaxMtime == 2      \* largest modification time of a content file

(***************************************************************************)
(* String helpers (JavaScript String / Array built-ins)                    *)
(***************************************************************************)
null == <<"null">>

SLASH == "/"
BACKSLASH == "\\"

\* s.replace(/\\/g, "/")
replaceBackslashes(s) ==
  [i \in 1..Len(s) |-> IF s[i] = BACKSLASH THEN SLASH ELSE s[i]]

\* s.indexOf(c), 0-based, -1 when absent
indexOf(s, c) ==
  IF \E i \in 1..Len(s) : s[i] = c
  THEN (CHOOSE i \in 1..Len(s) : s[i] = c /\ \A j \in 1..(i-1) : s[j] # c) - 1
  ELSE -1

\* s.slice(from) and s.slice(from, to), 0-based, to exclusive
sliceFrom(s, from) == SubSeq(s, from + 1, Len(s))
sliceTo(s, from, to) == SubSeq(s, from + 1, to)

startsWith(s, p) == Len(s) >= Len(p) /\ SubSeq(s, 1, Len(p)) = p
endsWith(s, p) == Len(s) >= Len(p) /\ SubSeq(s, Len(s) - Len(p) + 1, Len(s)) = p

\* s.split("/"): "" splits into one empty segment
RECURSIVE split(_, _)
split(s, sep) ==
  LET i == indexOf(s, sep) IN
  IF i = -1 THEN <<s>>
  ELSE <<sliceTo(s, 0, i)>> \o split(sliceFrom(s, i + 1), sep)

\* parts.join("/")
RECURSIVE join(_, _)
join(parts, sep) ==
  IF Len(parts) = 0 THEN <<>>
  ELSE IF Len(parts) = 1 THEN parts[1]
  ELSE parts[1] \o <<sep>> \o join(Tail(parts), sep)

RECURSIVE flatten(_)
flatten(ss) == IF Len(ss) = 0 THEN <<>> ELSE ss[1] \o flatten(Tail(ss))

\* String.prototype.toLowerCase on the letters the model uses
lowerChar(c) ==
  CASE c = "A" -> "a" [] c = "M" -> "m" [] c = "D" -> "d" [] c = "X" -> "x"
    [] c = "H" -> "h" [] c = "T" -> "t" [] c = "P" -> "p" [] c = "S" -> "s"
    [] c = "R" -> "r" [] c = "E" -> "e"
    [] OTHER -> c
toLowerCase(s) == [i \in 1..Len(s) |-> lowerChar(s[i])]

\* encodeURIComponent, one character at a time: unreserved characters stay,
\* the others become their %XX escape
encodeChar(c) ==
  CASE c = "/"  -> <<"%", "2", "F">>
    [] c = "\\" -> <<"%", "5", "C">>
    [] c = "?"  -> <<"%", "3", "F">>
    [] c = "#"  -> <<"%", "2", "3">>
    [] c = ":"  -> <<"%", "3", "A">>
    [] c = " "  -> <<"%", "2", "0">>
    [] OTHER    -> <<c>>
encodeURIComponent(s) == flatten([i \in 1..Len(s) |-> encodeChar(s[i])])

(***************************************************************************)
(* lib/markdown-utils.ts                                                   *)
(***************************************************************************)
encodePath(pathname) ==
  LET segs == split(pathname, SLASH) IN
  join([i \in 1..Len(segs) |-> encodeURIComponent(segs[i])], SLASH)

splitPathAndSuffix(rawUrl) ==
  LET queryIndex == indexOf(rawUrl, "?")
      hashIndex == indexOf(rawUrl, "#")
      splitIndex == IF queryIndex = -1 THEN hashIndex
                    ELSE IF hashIndex = -1 THEN queryIndex
                    ELSE IF queryIndex < hashIndex THEN queryIndex ELSE hashIndex
  IN IF splitIndex = -1
     THEN [pathname |-> rawUrl, suffix |-> <<>>]
     ELSE [pathname |-> sliceTo(rawUrl, 0, splitIndex),
           suffix |-> sliceFrom(rawUrl, splitIndex)]

(***************************************************************************)
(* Link resolver                                                           *)
(***************************************************************************)
DOT == <<".">>
DOTDOT == <<".", ".">>

\* the for-loop over the segments: [ok |-> FALSE] is the early "return null"
RECURSIVE walkSegments(_, _)
walkSegments(parts, safeParts) ==
  IF Len(parts) = 0 THEN [ok |-> TRUE, safeParts |-> safeParts]
  ELSE LET segment == Head(parts) IN
       IF segment = <<>> \/ segment = DOT
       THEN walkSegments(Tail(parts), safeParts)
       ELSE IF segment = DOTDOT
       THEN IF Len(safeParts) = 0
            THEN [ok |-> FALSE, safeParts |-> <<>>]
            ELSE walkSegments(Tail(parts), SubSeq(safeParts, 1, Len(safeParts) - 1))
       ELSE walkSegments(Tail(parts), Append(safeParts, segment))

\* the same loop without the empty-stack guard: pop() of an empty array is a no-op
RECURSIVE walkSegmentsUnguarded(_, _)
walkSegmentsUnguarded(parts, safeParts) ==
  IF Len(parts) = 0 THEN [ok |-> TRUE, safeParts |-> safeParts]
  ELSE LET segment == Head(parts) IN
       IF segment = <<>> \/ segment = DOT
       THEN walkSegmentsUnguarded(Tail(parts), safeParts)
       ELSE IF segment = DOTDOT
       THEN walkSegmentsUnguarded(Tail(parts),
              SubSeq(safeParts, 1, Len(safeParts) - 1))
       ELSE walkSegmentsUnguarded(Tail(parts), Append(safeParts, segment))

\* the segment list both resolvers walk
resolverParts(currentDocPath, rawPath) ==
  LET normalizedInput == replaceBackslashes(rawPath)
      docSegs == split(currentDocPath, SLASH)
      currentDir == SubSeq(docSegs, 1, Len(docSegs) - 1)
  IN IF startsWith(normalizedInput, <<SLASH>>)
     THEN split(sliceFrom(normalizedInput, 1), SLASH)
     ELSE currentDir \o split(normalizedInput, SLASH)

resolveDocsRelativePathUnguarded(currentDocPath, rawPath) ==
  LET walked == walkSegmentsUnguarded(resolverParts(currentDocPath, rawPath), <<>>)
  IN IF Len(walked.safeParts) = 0 THEN null ELSE join(walked.safeParts, SLASH)

resolveDocsRelativePath(currentDocPath, rawPath) ==
  LET walked == walkSegments(resolverParts(currentDocPath, rawPath), <<>>)
  IN IF ~walked.ok THEN null
     ELSE IF Len(walked.safeParts) = 0 THEN null
     ELSE join(walked.safeParts, SLASH)

resolveAboutRelativePath(currentDocPath, rawPath) ==
  LET walked == walkSegments(resolverParts(currentDocPath, rawPath), <<>>)
  IN IF ~walked.ok THEN null
     ELSE IF Len(walked.safeParts) = 0 THEN null
     ELSE join(walked.safeParts, SLASH)


\* string literals of the source, as character sequences
STR_MD == <<".", "m", "d">>
STR_MDX == <<".", "m", "d", "x">>
STR_DOCS == <<"/", "d", "o", "c", "s">>
STR_DOCS_ASSET == <<"/", "a", "p", "i", "/", "d", "o", "c", "s", "-", "a", "s", "s", "e", "t", "/">>
STR_ABOUT == <<"/", "a", "b", "o", "u", "t">>
STR_ABOUT_ASSET == <<"/", "a", "b", "o", "u", "t", "-", "a", "s", "s", "e", "t", "/">>
STR_HTTP == <<"h", "t", "t", "p", ":">>
STR_HTTPS == <<"h", "t", "t", "p", "s", ":">>
STR_MAILTO == <<"m", "a", "i", "l", "t", "o", ":">>
STR_TEL == <<"t", "e", "l", ":">>
STR_DATA == <<"d", "a", "t", "a", ":">>
STR_HASH == <<"#">>
STR_SLASHSLASH == <<"/", "/">>

\* /^(https?:|mailto:|tel:|#|data:|\/\/)/i
matchesLinkSchemes(url) ==
  \E p \in {STR_HTTP, STR_HTTPS, STR_MAILTO, STR_TEL, STR_HASH, STR_DATA,
            STR_SLASHSLASH} : startsWith(toLowerCase(url), p)

\* the image test without "data:"
matchesImageSchemesNoData(url) ==
  \E p \in {STR_HTTP, STR_HTTPS, STR_SLASHSLASH} : startsWith(toLowerCase(url), p)

\* /^(https?:|data:|\/\/)/i
matchesImageSchemes(url) ==
  \E p \in {STR_HTTP, STR_HTTPS, STR_DATA, STR_SLASHSLASH} :
     startsWith(toLowerCase(url), p)

\* /^(https?:|mailto:|tel:|data:|\/\/)/i
matchesBasePathSchemes(url) ==
  \E p \in {STR_HTTP, STR_HTTPS, STR_MAILTO, STR_TEL, STR_DATA, STR_SLASHSLASH} :
     startsWith(toLowerCase(url), p)

\* toDocHref without encodePath
toDocHrefUnencoded(slug) ==
  IF Len(slug) = 0 THEN STR_DOCS
  ELSE STR_DOCS \o <<SLASH>> \o join(slug, SLASH)

toDocHref(slug) ==
  IF Len(slug) = 0 THEN STR_DOCS
  ELSE STR_DOCS \o <<SLASH>> \o encodePath(join(slug, SLASH))

\* the route of a resolved path without the lookup of resolvedPath + ".mdx"
docsRouteOfNoMdxLookup(resolvedPath, suffix, docPathSet) ==
  LET lower == toLowerCase(resolvedPath)
      extension == IF endsWith(lower, STR_MD) THEN STR_MD
                   ELSE IF endsWith(lower, STR_MDX) THEN STR_MDX
                   ELSE null
  IN IF extension # null
     THEN toDocHref(split(sliceTo(resolvedPath, 0, Len(resolvedPath) - Len(extension)),
                          SLASH)) \o suffix
     ELSE IF (resolvedPath \o STR_MD) \in docPathSet
     THEN toDocHref(split(resolvedPath, SLASH)) \o suffix
     ELSE STR_DOCS_ASSET \o encodePath(resolvedPath) \o suffix

\* resolveMarkdownHref from "const extension = ..." on: the route of a resolved path
docsRouteOf(resolvedPath, suffix, docPathSet) ==
  LET lower == toLowerCase(resolvedPath)
      extension == IF endsWith(lower, STR_MD) THEN STR_MD
                   ELSE IF endsWith(lower, STR_MDX) THEN STR_MDX
                   ELSE null
  IN IF extension # null
     THEN toDocHref(split(sliceTo(resolvedPath, 0, Len(resolvedPath) - Len(extension)),
                          SLASH)) \o suffix
     ELSE IF (resolvedPath \o STR_MD) \in docPathSet
     THEN toDocHref(split(resolvedPath, SLASH)) \o suffix
     ELSE IF (resolvedPath \o STR_MDX) \in docPathSet
     THEN toDocHref(split(resolvedPath, SLASH)) \o suffix
     ELSE STR_DOCS_ASSET \o encodePath(resolvedPath) \o suffix

\* resolveMarkdownHref without the "if (!resolvedPath) return href" line: the
\* unresolved pathname goes on to the asset route
resolveMarkdownHrefNoNullCheck(href, currentDocPath, docPathSet) ==
  IF Len(href) = 0 THEN href
  ELSE IF matchesLinkSchemes(href) THEN href
  ELSE LET ps == splitPathAndSuffix(href) IN
       IF Len(ps.pathname) = 0 THEN href
       ELSE LET resolvedPath == resolveDocsRelativePath(currentDocPath, ps.pathname)
            IN docsRouteOf(IF resolvedPath = null THEN ps.pathname ELSE resolvedPath,
                           ps.suffix, docPathSet)

resolveMarkdownHref(href, currentDocPath, docPathSet) ==
  IF Len(href) = 0 THEN href
  ELSE IF matchesLinkSchemes(href) THEN href
  ELSE LET ps == splitPathAndSuffix(href) IN
       IF Len(ps.pathname) = 0 THEN href
       ELSE LET resolvedPath == resolveDocsRelativePath(currentDocPath, ps.pathname)
            IN IF resolvedPath = null THEN href
               ELSE docsRouteOf(resolvedPath, ps.suffix, docPathSet)

\* resolveImageSrc of lib/docs.ts
resolveImageSrc(src, currentDocPath) ==
  IF Len(src) = 0 THEN src
  ELSE IF matchesImageSchemes(src) THEN src
  ELSE LET ps == splitPathAndSuffix(src)
           resolvedPath == resolveDocsRelativePath(currentDocPath, ps.pathname)
       IN IF resolvedPath = null THEN src
          ELSE STR_DOCS_ASSET \o encodePath(resolvedPath) \o ps.suffix

\* lib/base-path.ts with NEXT_PUBLIC_BASE_PATH unset
BASE_PATH == <<>>

withBasePath(pathname) ==
  IF Len(pathname) = 0 THEN (IF Len(BASE_PATH) = 0 THEN <<SLASH>> ELSE BASE_PATH)
  ELSE IF matchesBasePathSchemes(pathname) THEN pathname
  ELSE BASE_PATH \o (IF startsWith(pathname, <<SLASH>>) THEN pathname
                     ELSE <<SLASH>> \o pathname)

resolveAboutHref(href, currentDocPath) ==
  IF Len(href) = 0 THEN href
  ELSE IF matchesLinkSchemes(href) THEN href
  ELSE LET ps == splitPathAndSuffix(href)
           resolvedPath == resolveAboutRelativePath(currentDocPath, ps.pathname)
       IN IF resolvedPath = null THEN href
          ELSE IF endsWith(toLowerCase(resolvedPath), STR_MD)
                  \/ endsWith(toLowerCase(resolvedPath), STR_MDX)
          THEN withBasePath(STR_ABOUT \o ps.suffix)
          ELSE withBasePath(STR_ABOUT_ASSET \o encodePath(resolvedPath) \o ps.suffix)

\* resolveImageSrc of lib/about.ts
resolveAboutImageSrc(src, currentDocPath) ==
  IF Len(src) = 0 THEN src
  ELSE IF matchesImageSchemes(src) THEN src
  ELSE LET ps == splitPathAndSuffix(src)
           resolvedPath == resolveAboutRelativePath(currentDocPath, ps.pathname)
       IN IF resolvedPath = null THEN src
          ELSE withBasePath(STR_ABOUT_ASSET \o encodePath(resolvedPath) \o ps.suffix)

\* the asset endpoint at rest
AssetIdle ==
  /\ aboutRootExists = TRUE
  /\ entries = "missing"
  /\ reqSegments = <<>>
  /\ reqEtag = FALSE
  /\ assetPc = "idle"
  /\ absolutePath = <<>>
  /\ statKind = "none"
  /\ response = [status |-> 0, served |-> "none", raised |-> FALSE]
  /\ sawMissing = FALSE

(***************************************************************************)
(* Inputs of the link resolver                                             *)
(***************************************************************************)
Chars == {"/", "\\", ".", "a", "?", "#"}

BoundedStrings(n) == UNION {[1..k -> Chars] : k \in 0..n}

\* hrefs that reach the Markdown-extension and known-document branches, the
\* scheme test and the percent-encoding
ProbeHrefs ==
  { <<"h", "t", "t", "p", ":", "a">>,
    <<"H", "T", "T", "P", "S", ":", "/", "/", "a">>,
    <<"m", "a", "i", "l", "t", "o", ":", "a">>,
    <<"t", "e", "l", ":", "a">>,
    <<"d", "a", "t", "a", ":", "a">>,
    <<"a", " ", "a", ".", "m", "d", "#", "a">>,
    <<"a", ":", "a", "?", "a">>,
    <<"a", ".", "m", "d">>,
    <<".", ".", "/", "a", ".", "M", "D", "#", "a">>,
    <<"a", ".", "m", "d", "x", "?", "a">>,
    <<"/", "a", "/", "d">>,
    <<".", ".", "/", ".", ".", "#", "a">>,
    <<".", ".", "/", ".", ".", "/", ".", ".", "/", "a", "?", "a">>,
    <<".", ".", "\\", ".", ".", "/", "a">> }

Hrefs == BoundedStrings(MaxLen) \cup ProbeHrefs

\* relPath of the documents of the content root: top level, one and two levels deep
DocPaths ==
  { <<"a", ".", "m", "d">>,
    <<"a", "/", "a", ".", "m", "d">>,
    <<"a", "/", "a", "/", "d", ".", "m", "d", "x">>,
    <<"a", "/", "d", ".", "m", "d", "x">> }

NoResult == [op |-> "none", value |-> <<>>]

PathInit ==
  /\ docPath \in DocPaths
  /\ rawHref \in Hrefs
  /\ linkResult = NoResult

PathIdle ==
  /\ docPath = <<>>
  /\ rawHref = <<>>
  /\ linkResult = NoResult

ApplyResolveDocsRelativePath ==
  /\ linkResult.op = "none"
  /\ linkResult' = [op |-> "resolveDocsRelativePath",
                    value |-> resolveDocsRelativePath(docPath, rawHref)]
  /\ UNCHANGED <<docPath, rawHref>>
  /\ UNCHANGED <<cacheVars, assetVars, libVars, pageVars>>

ApplyResolveAboutRelativePath ==
  /\ linkResult.op = "none"
  /\ linkResult' = [op |-> "resolveAboutRelativePath",
                    value |-> resolveAboutRelativePath(docPath, rawHref)]
  /\ UNCHANGED <<docPath, rawHref>>
  /\ UNCHANGED <<cacheVars, assetVars, libVars, pageVars>>

ApplyResolveMarkdownHref ==
  /\ linkResult.op = "none"
  /\ linkResult' = [op |-> "resolveMarkdownHref",
                    value |-> resolveMarkdownHref(rawHref, docPath, DocPaths)]
  /\ UNCHANGED <<docPath, rawHref>>
  /\ UNCHANGED <<cacheVars, assetVars, libVars, pageVars>>

ApplyResolveImageSrc ==
  /\ linkResult.op = "none"
  /\ linkResult' = [op |-> "resolveImageSrc",
                    value |-> resolveImageSrc(rawHref, docPath)]
  /\ UNCHANGED <<docPath, rawHref>>
  /\ UNCHANGED <<cacheVars, assetVars, libVars, pageVars>>

ApplyResolveAboutHref ==
  /\ linkResult.op = "none"
  /\ linkResult' = [op |-> "resolveAboutHref",
                    value |-> resolveAboutHref(rawHref, docPath)]
  /\ UNCHANGED <<docPath, rawHref>>
  /\ UNCHANGED <<cacheVars, assetVars, libVars, pageVars>>

ApplyResolveAboutImageSrc ==
  /\ linkResult.op = "none"
  /\ linkResult' = [op |-> "resolveAboutImageSrc",
                    value |-> resolveAboutImageSrc(rawHref, docPath)]
  /\ UNCHANGED <<docPath, rawHref>>
  /\ UNCHANGED <<cacheVars, assetVars, libVars, pageVars>>

PathNext ==
  \/ ApplyResolveDocsRelativePath
  \/ ApplyResolveAboutRelativePath
  \/ ApplyResolveMarkdownHref
  \/ ApplyResolveImageSrc
  \/ ApplyResolveAboutHref
  \/ ApplyResolveAboutImageSrc

(***************************************************************************)
(* Claims about the link resolver                                          *)
(***************************************************************************)
\* number of ".." and of named segments among the first i segments
UpsIn(parts, i) == Cardinality({j \in 1..i : parts[j] = DOTDOT})
NamesIn(parts, i) ==
  Cardinality({j \in 1..i : parts[j] # <<>> /\ parts[j] # DOT /\ parts[j] # DOTDOT})

\* some ".." is met when as many ".." as names went before it
AscendsAboveRoot(parts) ==
  \E i \in 1..Len(parts) : UpsIn(parts, i) > NamesIn(parts, i)

\* a non-empty "/"-joined list of segments, none empty, "." or ".."
IsSafeRelativePath(p) ==
  LET segs == split(p, SLASH) IN
  /\ Len(p) > 0
  /\ \A i \in 1..Len(segs) :
       segs[i] # <<>> /\ segs[i] # DOT /\ segs[i] # DOTDOT

\* C1: for every document path and raw path, both relative-path resolvers
\* return null when a ".." would pop the empty stack, and every non-null
\* result is a non-empty "/"-joined list of segments none of which is empty,
\* "." or "..".
TraversalSafety ==
  linkResult.op \in {"resolveDocsRelativePath", "resolveAboutRelativePath"} =>
    /\ AscendsAboveRoot(resolverParts(docPath, rawHref)) => linkResult.value = null
    /\ linkResult.value # null => IsSafeRelativePath(linkResult.value)

\* C1 witness: a path with a ".." that stays inside the root was resolved
TraversalSafetyWitness ==
  /\ linkResult.op = "resolveDocsRelativePath"
  /\ \E i \in 1..Len(resolverParts(docPath, rawHref)) :
       resolverParts(docPath, rawHref)[i] = DOTDOT
  /\ linkResult.value # null
  /\ IsSafeRelativePath(linkResult.value)

\* C2: a relative href whose path part ascends above the content root is
\* returned unchanged by resolveMarkdownHref, never as a /docs or
\* /api/docs-asset/ route.
EscapingHrefUnchanged ==
  (/\ linkResult.op = "resolveMarkdownHref"
   /\ AscendsAboveRoot(resolverParts(docPath, splitPathAndSuffix(rawHref).pathname)))
  => /\ linkResult.value = rawHref
     /\ ~startsWith(linkResult.value, STR_DOCS)
     /\ ~startsWith(linkResult.value, STR_DOCS_ASSET)

\* C2 witness: "../.." plus a suffix, from a document one level deep, came back unchanged
EscapingHrefUnchangedWitness ==
  /\ linkResult.op = "resolveMarkdownHref"
  /\ docPath = <<"a", "/", "a", ".", "m", "d">>
  /\ ~matchesLinkSchemes(rawHref)
  /\ Len(splitPathAndSuffix(rawHref).suffix) > 0
  /\ startsWith(rawHref, <<".", ".", "/", ".", ".">>)
  /\ AscendsAboveRoot(resolverParts(docPath, splitPathAndSuffix(rawHref).pathname))
  /\ linkResult.value = rawHref

(***************************************************************************)
(* Content tree and documents (lib/docs.ts)                                *)
(***************************************************************************)
\* absent value of the two cache fields and of other nullable records
NULL == [null |-> TRUE]

\* files that may exist under FOUNDATION_ROOT: a top-level document and an
\* image in a folder
FILE_A == <<"a", ".", "m", "d">>
FILE_C == <<"s", "/", "c", ".", "p", "n", "g">>
ContentPaths == {FILE_A, FILE_C}

NoFiles == [p \in ContentPaths |-> 0]

\* Two code points outside ASCII, written as tokens: U+00E9 (e with acute,
\* precomposed) and U+0301 (combining acute accent). "e" followed by U+0301
\* is canonically equivalent to U+00E9.
E_ACUTE == "U+00E9"
COMBINING_ACUTE == "U+0301"

\* canonical decomposition of the characters of the model
nfd(s) ==
  flatten([i \in 1..Len(s) |->
             IF s[i] = E_ACUTE THEN <<"e", COMBINING_ACUTE>> ELSE <<s[i]>>])

\* localeCompare(_, "zh-CN") on the characters of the model: the accent and
\* punctuation sort before letters, letters alphabetically
CollationOrder ==
  <<COMBINING_ACUTE, "-", ".", "/", "a", "b", "c", "d", "e", "g", "i", "l", "m",
    "n", "o", "p", "r", "s", "t", "w", "x">>
charRank(c) == CHOOSE i \in 1..Len(CollationOrder) : CollationOrder[i] = c

\* first level of the comparison: the letters, whatever their case
RECURSIVE compareRanks(_, _)
compareRanks(a, b) ==
  IF Len(a) = 0 /\ Len(b) = 0 THEN 0
  ELSE IF Len(a) = 0 THEN -1
  ELSE IF Len(b) = 0 THEN 1
  ELSE IF charRank(Head(a)) < charRank(Head(b)) THEN -1
  ELSE IF charRank(Head(a)) > charRank(Head(b)) THEN 1
  ELSE compareRanks(Tail(a), Tail(b))

\* last level, for strings with the same letters: at the first difference of
\* case the lower-case letter comes first
RECURSIVE compareCase(_, _)
compareCase(a, b) ==
  IF Len(a) = 0 \/ Len(b) = 0 THEN 0
  ELSE IF Head(a) = Head(b) THEN compareCase(Tail(a), Tail(b))
  ELSE IF lowerChar(Head(a)) = Head(a) THEN -1 ELSE 1

\* String.prototype.localeCompare(_, "zh-CN"): canonically equivalent
\* strings compare equal (ECMA-402, Intl.Collator)
localeCompare(a, b) ==
  LET primary == compareRanks(toLowerCase(nfd(a)), toLowerCase(nfd(b)))
  IN IF primary # 0 THEN primary ELSE compareCase(nfd(a), nfd(b))

lastIndexOf(s, c) ==
  IF \E i \in 1..Len(s) : s[i] = c
  THEN (CHOOSE i \in 1..Len(s) : s[i] = c /\ \A j \in (i+1)..Len(s) : s[j] # c) - 1
  ELSE -1

\* path.extname(name).toLowerCase()
extname(name) ==
  LET i == lastIndexOf(name, ".") IN
  IF i <= 0 THEN <<>> ELSE toLowerCase(sliceFrom(name, i))

DOC_EXTENSIONS == {STR_MD, STR_MDX}

stripDocExtension(filePath) ==
  IF endsWith(toLowerCase(filePath), STR_MD)
  THEN sliceTo(filePath, 0, Len(filePath) - 3)
  ELSE IF endsWith(toLowerCase(filePath), STR_MDX)
  THEN sliceTo(filePath, 0, Len(filePath) - 4)
  ELSE filePath

\* stable insertion of x into a list sorted by relPath
RECURSIVE insertByRelPath(_, _)
insertByRelPath(sorted, x) ==
  IF Len(sorted) = 0 THEN <<x>>
  ELSE IF localeCompare(x.relPath, Head(sorted).relPath) < 0 THEN <<x>> \o sorted
  ELSE <<Head(sorted)>> \o insertByRelPath(Tail(sorted), x)

RECURSIVE sortByRelPath(_)
sortByRelPath(docs) ==
  IF Len(docs) = 0 THEN <<>>
  ELSE insertByRelPath(sortByRelPath(SubSeq(docs, 1, Len(docs) - 1)), docs[Len(docs)])

RECURSIVE seqOfSet(_)
seqOfSet(S) ==
  IF S = {} THEN <<>>
  ELSE LET x == CHOOSE y \in S : TRUE IN <<x>> \o seqOfSet(S \ {x})

\* readDocsRecursively: one raw record per file with a document extension.
\* The text of a file is represented by the modification time it was written
\* at; title, description and body derive from it.
readDocsRecursively(fs) ==
  LET docFiles == {p \in ContentPaths :
                     fs[p] # 0 /\ extname(p) \in DOC_EXTENSIONS}
      record(p) == [relPath |-> p,
                    slug |-> split(stripDocExtension(p), SLASH),
                    title |-> fs[p],
                    description |-> fs[p],
                    content |-> fs[p]]
  IN seqOfSet({record(p) : p \in docFiles})

(***************************************************************************)
(* Document tree                                                           *)
(***************************************************************************)
\* the comparator of sortTree
compareNodes(a, b) ==
  IF a.type # b.type THEN (IF a.type = "folder" THEN -1 ELSE 1)
  ELSE localeCompare(a.name, b.name)

RECURSIVE insertNode(_, _)
insertNode(sorted, x) ==
  IF Len(sorted) = 0 THEN <<x>>
  ELSE IF compareNodes(x, Head(sorted)) < 0 THEN <<x>> \o sorted
  ELSE <<Head(sorted)>> \o insertNode(Tail(sorted), x)

RECURSIVE sortNodes(_)
sortNodes(nodes) ==
  IF Len(nodes) = 0 THEN <<>>
  ELSE insertNode(sortNodes(SubSeq(nodes, 1, Len(nodes) - 1)), nodes[Len(nodes)])

\* sortTree without the loop over the children of the folders
sortTreeTopLevelOnly(nodes) == sortNodes(nodes)

RECURSIVE sortTree(_)
sortTree(nodes) ==
  LET sorted == sortNodes(nodes) IN
  [i \in 1..Len(sorted) |->
     IF sorted[i].type = "folder"
     THEN [sorted[i] EXCEPT !.children = sortTree(@)]
     ELSE sorted[i]]

\* index of the first folder of the level named segment, 0 when there is none
findFolder(level, segment) ==
  IF \E i \in 1..Len(level) : level[i].type = "folder" /\ level[i].name = segment
  THEN CHOOSE i \in 1..Len(level) :
         /\ level[i].type = "folder" /\ level[i].name = segment
         /\ \A j \in 1..(i-1) : ~(level[j].type = "folder" /\ level[j].name = segment)
  ELSE 0

\* the body of the loop over the documents: walk / create the folders, then
\* push the file leaf
RECURSIVE insertDoc(_, _, _, _)
insertDoc(currentLevel, folderSegments, accumulatedPath, doc) ==
  IF Len(folderSegments) = 0
  THEN Append(currentLevel,
         [type |-> "file",
          name |-> split(doc.relPath, SLASH)[Len(split(doc.relPath, SLASH))],
          key |-> doc.relPath, relPath |-> doc.relPath,
          slug |-> doc.slug, title |-> doc.title])
  ELSE LET segment == Head(folderSegments)
           nextPath == IF Len(accumulatedPath) = 0 THEN segment
                       ELSE accumulatedPath \o <<SLASH>> \o segment
           i == findFolder(currentLevel, segment)
       IN IF i = 0
          THEN Append(currentLevel,
                 [type |-> "folder", name |-> segment, key |-> nextPath,
                  children |-> insertDoc(<<>>, Tail(folderSegments), nextPath, doc)])
          ELSE [currentLevel EXCEPT
                  ![i].children = insertDoc(@, Tail(folderSegments), nextPath, doc)]

RECURSIVE insertDocs(_, _)
insertDocs(root, docs) ==
  IF Len(docs) = 0 THEN root
  ELSE LET doc == Head(docs)
           segments == split(doc.relPath, SLASH)
       IN insertDocs(insertDoc(root, SubSeq(segments, 1, Len(segments) - 1), <<>>, doc),
                     Tail(docs))

buildDocsTree(docs) == sortTree(insertDocs(<<>>, docs))

(***************************************************************************)
(* Snapshot and version fingerprint                                        *)
(***************************************************************************)
EmptySnapshot == [docs |-> <<>>, slugs |-> <<>>, tree |-> <<>>, searchEntries |-> <<>>]

\* the rendered body is represented by the text it was rendered from
renderMarkdownToHtml(content) == content

\* the record createSnapshot makes of one raw document
toDocRecord(raw) ==
  [relPath |-> raw.relPath,
   slug |-> raw.slug,
   title |-> raw.title,
   description |-> raw.description,
   contentHtml |-> renderMarkdownToHtml(raw.content)]

\* the object createSnapshot returns for the rendered documents
snapshotOf(docs) ==
  [docs |-> docs,
   slugs |-> [i \in 1..Len(docs) |-> docs[i].slug],
   tree |-> buildDocsTree(docs),
   searchEntries |-> [i \in 1..Len(docs) |->
                        [relPath |-> docs[i].relPath, slug |-> docs[i].slug,
                         title |-> docs[i].title,
                         description |-> docs[i].description]]]

mapDocs(rawDocs) == [i \in 1..Len(rawDocs) |-> toDocRecord(rawDocs[i])]

createSnapshot(exists, fs) ==
  IF ~exists THEN EmptySnapshot
  ELSE snapshotOf(mapDocs(sortByRelPath(readDocsRecursively(fs))))

\* names readdirSync(rootDir/currentDir) returns; currentDir is a list of segments
dirEntries(fs, currentDir) ==
  {split(p, SLASH)[Len(currentDir) + 1] :
     p \in {q \in ContentPaths :
              /\ fs[q] # 0
              /\ Len(split(q, SLASH)) > Len(currentDir)
              /\ SubSeq(split(q, SLASH), 1, Len(currentDir)) = currentDir}}

\* entry.isDirectory(): the name has files below it
isDirectory(fs, currentDir, name) ==
  \E q \in ContentPaths :
     /\ fs[q] # 0
     /\ Len(split(q, SLASH)) > Len(currentDir) + 1
     /\ SubSeq(split(q, SLASH), 1, Len(currentDir) + 1) = Append(currentDir, name)

maxOf(a, b) == IF a > b THEN a ELSE b

RECURSIVE computeDocsVersionOver(_, _, _, _)
RECURSIVE computeDocsVersion(_, _)
\* the loop of computeDocsVersion over the entries still to visit
computeDocsVersionOver(fs, currentDir, names, acc) ==
  IF names = {} THEN acc
  ELSE LET name == CHOOSE n \in names : TRUE
           rest == names \ {name}
       IN IF isDirectory(fs, currentDir, name)
          THEN LET child == computeDocsVersion(fs, Append(currentDir, name))
               IN computeDocsVersionOver(fs, currentDir, rest,
                    [fileCount |-> acc.fileCount + child.fileCount,
                     maxMtimeMs |-> maxOf(acc.maxMtimeMs, child.maxMtimeMs)])
          ELSE computeDocsVersionOver(fs, currentDir, rest,
                 [fileCount |-> acc.fileCount + 1,
                  maxMtimeMs |-> maxOf(acc.maxMtimeMs,
                                       fs[join(Append(currentDir, name), SLASH)])])

\* the same loop with the recursion into directories left out
computeDocsVersionTopLevelOnly(fs, currentDir) ==
  LET top == {p \in ContentPaths : fs[p] # 0 /\ Len(split(p, SLASH)) = 1}
      mtimes == {fs[p] : p \in top}
  IN [fileCount |-> Cardinality(top),
      maxMtimeMs |-> IF top = {} THEN 0 ELSE CHOOSE m \in mtimes : \A k \in mtimes : k <= m]

computeDocsVersion(fs, currentDir) ==
  computeDocsVersionOver(fs, currentDir, dirEntries(fs, currentDir),
                         [fileCount |-> 0, maxMtimeMs |-> 0])

\* compares the file counts only
isSameDocsVersionCountOnly(left, right) == left.fileCount = right.fileCount

isSameDocsVersion(left, right) ==
  left.fileCount = right.fileCount /\ left.maxMtimeMs = right.maxMtimeMs

(***************************************************************************)
(* Persisted snapshot file                                                 *)
(***************************************************************************)
SNAPSHOT_SCHEMA_VERSION == 2

\* contents of SNAPSHOT_PATH: absent, unreadable (readFileSync throws), not
\* JSON (JSON.parse throws), or a JSON object with __meta and the snapshot;
\* docsIsArray says that docs and tree are arrays, slugsIsArray and
\* searchEntriesIsArray say it of slugs and of searchEntries
DiskFile(state, schemaVersion, version, snapshot, docsIsArray) ==
  [state |-> state, schemaVersion |-> schemaVersion, version |-> version,
   snapshot |-> snapshot, docsIsArray |-> docsIsArray,
   slugsIsArray |-> TRUE, searchEntriesIsArray |-> TRUE]

DiskMissing == DiskFile("missing", 0, NULL, NULL, FALSE)
DiskUnreadable == DiskFile("unreadable", 0, NULL, NULL, FALSE)
DiskUnparsable == DiskFile("unparsable", 0, NULL, NULL, FALSE)

\* the schema check left out
getPersistedSnapshotMetaAnySchema(parsed) ==
  IF parsed.version = NULL THEN NULL
  ELSE [schemaVersion |-> parsed.schemaVersion, version |-> parsed.version]

getPersistedSnapshotMeta(parsed) ==
  IF parsed.schemaVersion # SNAPSHOT_SCHEMA_VERSION THEN NULL
  ELSE IF parsed.version = NULL THEN NULL
  ELSE [schemaVersion |-> parsed.schemaVersion, version |-> parsed.version]

\* what the try block does once the file was read and parsed
validateParsedSnapshot(parsed, expectedVersion) ==
  LET meta == getPersistedSnapshotMeta(parsed) IN
  IF meta = NULL THEN NULL
  ELSE IF ~isSameDocsVersion(meta.version, expectedVersion) THEN NULL
  ELSE IF ~parsed.docsIsArray THEN NULL
  ELSE [docs |-> parsed.snapshot.docs,
        slugs |-> IF parsed.slugsIsArray THEN parsed.snapshot.slugs ELSE <<>>,
        tree |-> parsed.snapshot.tree,
        searchEntries |-> IF parsed.searchEntriesIsArray
                          THEN parsed.snapshot.searchEntries ELSE <<>>]

\* without the try / catch: a read or parse error leaves the function
getValidatedSnapshotFromDiskNoCatch(dsk, expectedVersion) ==
  IF dsk.state = "missing" THEN [threw |-> FALSE, value |-> NULL]
  ELSE IF dsk.state \in {"unreadable", "unparsable"}
  THEN [threw |-> TRUE, value |-> NULL]
  ELSE [threw |-> FALSE, value |-> validateParsedSnapshot(dsk, expectedVersion)]

\* [threw, value]: threw says an exception left the function
getValidatedSnapshotFromDisk(dsk, expectedVersion) ==
  IF dsk.state = "missing" THEN [threw |-> FALSE, value |-> NULL]
  ELSE IF dsk.state \in {"unreadable", "unparsable"}
  THEN [threw |-> FALSE, value |-> NULL]
  ELSE [threw |-> FALSE, value |-> validateParsedSnapshot(dsk, expectedVersion)]

\* [threw, disk]: a failing mkdirSync / writeFileSync is caught and ignored
writeSnapshotToDisk(dsk, writable, snapshot, version) ==
  IF writable
  THEN [threw |-> FALSE,
        disk |-> DiskFile("json", SNAPSHOT_SCHEMA_VERSION, version, snapshot, TRUE)]
  ELSE [threw |-> FALSE, disk |-> dsk]

(***************************************************************************)
(* getSnapshot                                                             *)
(***************************************************************************)
\* outcome of one call: the two cache fields and the file afterwards, the
\* value returned, and what the call did
Outcome(snap, ver, dsk, result, computed, builds, diskSeen, wrote, raised) ==
  [snap |-> snap, ver |-> ver, disk |-> dsk, result |-> result,
   computed |-> computed, builds |-> builds, diskSeen |-> diskSeen,
   wrote |-> wrote, raised |-> raised]

\* readdirSync of a directory that does not exist throws
threwOutcome(cs, cv, dsk) ==
  Outcome(cs, cv, dsk, NULL, FALSE, 0, "notread", "no", TRUE)

\* the build is stored without its fingerprint
snapshotDevelopmentVersionNotStored(exists, fs, dsk, cs, cv) ==
  IF ~exists THEN threwOutcome(cs, cv, dsk)
  ELSE LET currentVersion == computeDocsVersion(fs, <<>>) IN
       IF cs # NULL /\ cv # NULL /\ isSameDocsVersion(cv, currentVersion)
       THEN Outcome(cs, cv, dsk, cs, TRUE, 0, "notread", "no", FALSE)
       ELSE LET built == createSnapshot(exists, fs)
            IN Outcome(built, cv, dsk, built, TRUE, 1, "notread", "no", FALSE)

\* if (process.env.NODE_ENV !== "production") { ... }
snapshotDevelopment(exists, fs, dsk, cs, cv) ==
  IF ~exists THEN threwOutcome(cs, cv, dsk)
  ELSE LET currentVersion == computeDocsVersion(fs, <<>>) IN
       IF cs # NULL /\ cv # NULL /\ isSameDocsVersion(cv, currentVersion)
       THEN Outcome(cs, cv, dsk, cs, TRUE, 0, "notread", "no", FALSE)
       ELSE LET built == createSnapshot(exists, fs)
            IN Outcome(built, currentVersion, dsk, built, TRUE, 1, "notread", "no", FALSE)

\* the test replaced by true: every production access warms up again
isColdAlways(cs) == TRUE

\* if (!cachedSnapshot)
isCold(cs) == cs = NULL

\* if (!cachedSnapshot) { ... } return cachedSnapshot
snapshotProduction(exists, fs, dsk, writable, cs, cv) ==
  IF ~isCold(cs) THEN Outcome(cs, cv, dsk, cs, FALSE, 0, "notread", "no", FALSE)
  ELSE IF ~exists THEN threwOutcome(cs, cv, dsk)
  ELSE LET currentVersion == computeDocsVersion(fs, <<>>)
           fromDisk == getValidatedSnapshotFromDisk(dsk, currentVersion)
       IN IF fromDisk.threw
          THEN Outcome(cs, cv, dsk, NULL, TRUE, 0, dsk.state, "no", TRUE)
          ELSE IF fromDisk.value # NULL
          THEN Outcome(fromDisk.value, currentVersion, dsk, fromDisk.value,
                       TRUE, 0, dsk.state, "no", FALSE)
          ELSE LET built == createSnapshot(exists, fs)
                   written == writeSnapshotToDisk(dsk, writable, built, currentVersion)
               IN Outcome(built, currentVersion, written.disk,
                          IF written.threw THEN NULL ELSE built,
                          TRUE, 1, dsk.state,
                          IF writable THEN "ok" ELSE "failed", written.threw)

\* the same function without the leading existsSync(FOUNDATION_ROOT) test
getSnapshotNoRootCheck(env, exists, fs, dsk, writable, cs, cv) ==
  IF env # "production" THEN snapshotDevelopment(exists, fs, dsk, cs, cv)
  ELSE snapshotProduction(exists, fs, dsk, writable, cs, cv)

getSnapshot(env, exists, fs, dsk, writable, cs, cv) ==
  IF ~exists
  THEN Outcome(EmptySnapshot, [fileCount |-> 0, maxMtimeMs |-> 0], dsk,
               EmptySnapshot, FALSE, 0, "notread", "no", FALSE)
  ELSE IF env # "production" THEN snapshotDevelopment(exists, fs, dsk, cs, cv)
  ELSE snapshotProduction(exists, fs, dsk, writable, cs, cv)

(***************************************************************************)
(* The cache as a state machine: accesses, the content directory changing  *)
(* under it, the persisted file being damaged, process restarts            *)
(***************************************************************************)
NodeEnvs == {"development", "production"}

Mtimes == 1..MaxMtime

\* lastAccess when the process has not called getSnapshot yet
NoAccess ==
  [n |-> 0, wasWarm |-> FALSE, rootSeen |-> FALSE,
   result |-> NULL, computed |-> FALSE, builds |-> 0, diskSeen |-> "notread",
   wrote |-> "no", raised |-> FALSE]

CacheInit ==
  /\ nodeEnv \in NodeEnvs
  /\ rootExists = TRUE
  /\ files \in [ContentPaths -> 0..MaxMtime]
  /\ disk = DiskMissing
  /\ cachedSnapshot = NULL
  /\ cachedVersion = NULL
  /\ lastAccess = NoAccess
  /\ sinceAccess = "none"

CacheIdle ==
  /\ nodeEnv = "development"
  /\ rootExists = FALSE
  /\ files = NoFiles
  /\ disk = DiskMissing
  /\ cachedSnapshot = NULL
  /\ cachedVersion = NULL
  /\ lastAccess = NoAccess
  /\ sinceAccess = "none"

\* getAllDocs / getAllDocSlugs / getDocsTree / getDocsSearchEntries: one
\* synchronous call of getSnapshot; writable says whether a write of the
\* persisted file would succeed
CacheAccess(out) ==
  /\ cachedSnapshot' = out.snap
  /\ cachedVersion' = out.ver
  /\ disk' = out.disk
  /\ lastAccess' = [n |-> IF lastAccess.n = 1 THEN 2 ELSE 1,
                    wasWarm |-> cachedSnapshot # NULL,
                    rootSeen |-> rootExists,
                    result |-> out.result,
                    computed |-> out.computed,
                    builds |-> out.builds,
                    diskSeen |-> out.diskSeen,
                    wrote |-> out.wrote,
                    raised |-> out.raised]
  /\ sinceAccess' = "none"
  /\ UNCHANGED <<nodeEnv, rootExists, files>>

GetSnapshotReturning(out) ==
  /\ CacheAccess(out)
  /\ UNCHANGED <<pathVars, assetVars, libVars, pageVars>>

GetSnapshot ==
  \E writable \in BOOLEAN :
     GetSnapshotReturning(getSnapshot(nodeEnv, rootExists, files, disk, writable,
                                      cachedSnapshot, cachedVersion))

\* the first change since the last access is remembered by its kind, any
\* further change makes it "other"
noteChange(kind) == IF sinceAccess = "none" THEN kind ELSE "other"

\* a file is created or rewritten; tools may set any modification time
WriteFile ==
  /\ rootExists
  /\ \E p \in ContentPaths, t \in Mtimes :
       /\ files[p] # t
       /\ files' = [files EXCEPT ![p] = t]
       /\ sinceAccess' = noteChange(IF files[p] = 0 THEN "added"
                                    ELSE IF t > files[p] THEN "raised"
                                    ELSE "other")
  /\ UNCHANGED <<nodeEnv, rootExists, disk, cachedSnapshot,
                 cachedVersion, lastAccess>>
  /\ UNCHANGED <<pathVars, assetVars, libVars, pageVars>>

RemoveFile ==
  /\ rootExists
  /\ \E p \in ContentPaths :
       /\ files[p] # 0
       /\ files' = [files EXCEPT ![p] = 0]
  /\ sinceAccess' = noteChange("removed")
  /\ UNCHANGED <<nodeEnv, rootExists, disk, cachedSnapshot,
                 cachedVersion, lastAccess>>
  /\ UNCHANGED <<pathVars, assetVars, libVars, pageVars>>

RemoveRoot ==
  /\ rootExists
  /\ rootExists' = FALSE
  /\ files' = NoFiles
  /\ sinceAccess' = "other"
  /\ UNCHANGED <<nodeEnv, disk, cachedSnapshot, cachedVersion, lastAccess>>
  /\ UNCHANGED <<pathVars, assetVars, libVars, pageVars>>

CreateRoot ==
  /\ ~rootExists
  /\ rootExists' = TRUE
  /\ sinceAccess' = "other"
  /\ UNCHANGED <<nodeEnv, files, disk, cachedSnapshot, cachedVersion, lastAccess>>
  /\ UNCHANGED <<pathVars, assetVars, libVars, pageVars>>

\* the persisted file is deleted, made unreadable, truncated, left behind by
\* a release with another schema version, or its docs member is no array
DamageDisk ==
  /\ \E d \in {DiskMissing, DiskUnreadable, DiskUnparsable} \cup
              (IF disk.state = "json"
               THEN {[disk EXCEPT !.schemaVersion = SNAPSHOT_SCHEMA_VERSION - 1],
                     [disk EXCEPT !.docsIsArray = FALSE]}
               ELSE {}) :
       /\ d # disk
       /\ disk' = d
  /\ UNCHANGED <<nodeEnv, rootExists, files, cachedSnapshot,
                 cachedVersion, lastAccess, sinceAccess>>
  /\ UNCHANGED <<pathVars, assetVars, libVars, pageVars>>

\* the server process is restarted, in either mode: the module-level fields
\* are null again, the persisted file stays
Restart ==
  /\ lastAccess.n # 0
  /\ nodeEnv' \in NodeEnvs
  /\ cachedSnapshot' = NULL
  /\ cachedVersion' = NULL
  /\ lastAccess' = NoAccess
  /\ sinceAccess' = "none"
  /\ UNCHANGED <<rootExists, files, disk>>
  /\ UNCHANGED <<pathVars, assetVars, libVars, pageVars>>

CacheNext ==
  \/ GetSnapshot
  \/ WriteFile
  \/ RemoveFile
  \/ RemoveRoot
  \/ CreateRoot
  \/ DamageDisk
  \/ Restart

\* persisted files a starting process may find: none, or one written for
\* some content tree under the current schema version, by this release or
\* by one that did not persist slugs or searchEntries
PersistedFiles ==
  {DiskMissing} \cup
  {[DiskFile("json", SNAPSHOT_SCHEMA_VERSION, computeDocsVersion(fs, <<>>),
             createSnapshot(TRUE, fs), TRUE)
      EXCEPT !.slugsIsArray = hasSlugs, !.searchEntriesIsArray = hasEntries] :
     fs \in [ContentPaths -> 0..MaxMtime], hasSlugs \in BOOLEAN,
     hasEntries \in BOOLEAN}

\* a process starts, in either mode, over some content tree and some
\* persisted file
StartupInit ==
  /\ nodeEnv \in NodeEnvs
  /\ rootExists = TRUE
  /\ files \in [ContentPaths -> 0..MaxMtime]
  /\ disk \in PersistedFiles
  /\ cachedSnapshot = NULL
  /\ cachedVersion = NULL
  /\ lastAccess = NoAccess
  /\ sinceAccess = "none"

StartupNext ==
  \/ GetSnapshot
  \/ WriteFile
  \/ Restart

(***************************************************************************)
(* Claims about the snapshot cache                                         *)
(***************************************************************************)
\* a step that is one call of getSnapshot
AccessStep == lastAccess'.n # 0 /\ lastAccess'.n # lastAccess.n

\* the fingerprint of a content tree, stated directly on the set of files
FileCountOf(fs) == Cardinality({p \in ContentPaths : fs[p] # 0})
MaxMtimeOf(fs) ==
  IF \A p \in ContentPaths : fs[p] = 0 THEN 0
  ELSE CHOOSE m \in {fs[p] : p \in ContentPaths} : \A q \in ContentPaths : fs[q] <= m
FingerprintOf(fs) == [fileCount |-> FileCountOf(fs), maxMtimeMs |-> MaxMtimeOf(fs)]

\* C3: warm, live-editing mode, content root present: every access
\* recomputes the fingerprint; when it equals the recorded one the cached
\* snapshot is returned and nothing is built; when it differs exactly one
\* build runs, its result replaces the cached snapshot and the new
\* fingerprint is recorded (so an access that follows with the same
\* fingerprint is served from the cache).
WarmLiveAccessRevalidates ==
  [][(/\ AccessStep
      /\ nodeEnv # "production"
      /\ rootExists
      /\ cachedSnapshot # NULL)
     => /\ lastAccess'.computed
        /\ cachedVersion' = FingerprintOf(files)
        /\ IF cachedVersion = FingerprintOf(files)
           THEN /\ lastAccess'.builds = 0
                /\ lastAccess'.result = cachedSnapshot
                /\ cachedSnapshot' = cachedSnapshot
           ELSE /\ lastAccess'.builds = 1
                /\ lastAccess'.result = createSnapshot(TRUE, files)
                /\ cachedSnapshot' = createSnapshot(TRUE, files)]_vars

\* C3 witness: a warm live-editing access found the fingerprint unchanged
\* and served the cached documents without building
WarmLiveAccessRevalidatesWitness ==
  /\ nodeEnv = "development"
  /\ lastAccess.wasWarm /\ lastAccess.rootSeen
  /\ lastAccess.computed
  /\ lastAccess.builds = 0
  /\ lastAccess.result = cachedSnapshot
  /\ Len(cachedSnapshot.docs) > 0

\* snap is the persisted snapshot as adopted: its docs and tree, and its
\* slugs and searchEntries where the file holds them as arrays
AdoptedFromDisk(snap) ==
  /\ snap.docs = disk.snapshot.docs
  /\ snap.tree = disk.snapshot.tree
  /\ disk.slugsIsArray => snap.slugs = disk.snapshot.slugs
  /\ disk.searchEntriesIsArray => snap.searchEntries = disk.snapshot.searchEntries

\* the persisted file carries the expected schema version and the current fingerprint
PersistedMatches ==
  /\ disk.state = "json"
  /\ disk.schemaVersion = SNAPSHOT_SCHEMA_VERSION
  /\ disk.version = FingerprintOf(files)

\* C4 as claimed: cold, in either mode, content root present: a persisted
\* snapshot with the expected schema version and the current fingerprint is
\* adopted without a build, otherwise the build runs; the cache is warm
\* afterwards.
ColdAccessAdoptsInEitherMode ==
  [][(AccessStep /\ rootExists /\ cachedSnapshot = NULL)
     => /\ cachedSnapshot' # NULL
        /\ lastAccess'.computed
        /\ IF PersistedMatches
           THEN lastAccess'.builds = 0 /\ AdoptedFromDisk(cachedSnapshot')
           ELSE lastAccess'.builds = 1]_vars

\* C4 amended: a cold access leaves the cache warm. With the content root
\* present it computes the fingerprint; in production mode it adopts,
\* without a build, a persisted snapshot whose schema version is the
\* constant, whose fingerprint is the current one and whose docs and tree
\* are arrays, and builds otherwise; in live-editing mode it always builds.
\* With the content root absent it caches the empty snapshot.
ColdAccessWarmsUp ==
  [][(AccessStep /\ cachedSnapshot = NULL)
     => /\ cachedSnapshot' # NULL
        /\ lastAccess'.result = cachedSnapshot'
        /\ ~lastAccess'.raised
        /\ IF ~rootExists
           THEN /\ cachedSnapshot' = EmptySnapshot
                /\ lastAccess'.builds = 0
           ELSE /\ lastAccess'.computed
                /\ cachedVersion' = FingerprintOf(files)
                /\ IF nodeEnv = "production" /\ PersistedMatches /\ disk.docsIsArray
                   THEN /\ lastAccess'.builds = 0
                        /\ AdoptedFromDisk(cachedSnapshot')
                   ELSE /\ lastAccess'.builds = 1
                        /\ cachedSnapshot' = createSnapshot(TRUE, files)]_vars

\* C4 witness: a cold production access adopted the persisted snapshot
ColdAccessWarmsUpWitness ==
  /\ nodeEnv = "production"
  /\ lastAccess.n # 0 /\ ~lastAccess.wasWarm /\ lastAccess.rootSeen
  /\ lastAccess.diskSeen = "json"
  /\ lastAccess.builds = 0
  /\ lastAccess.result = cachedSnapshot
  /\ Len(cachedSnapshot.docs) > 0

\* C5 as claimed: warm, production mode: every access returns the snapshot
\* already held, unchanged, without recomputing the fingerprint or
\* building, whatever happened to the content directory.
WarmProductionServesWarmUpSnapshot ==
  [][(AccessStep /\ nodeEnv = "production" /\ cachedSnapshot # NULL)
     => /\ lastAccess'.result = cachedSnapshot
        /\ cachedSnapshot' = cachedSnapshot
        /\ ~lastAccess'.computed
        /\ lastAccess'.builds = 0]_vars

\* C5 amended: warm, production mode: no access recomputes the fingerprint
\* or builds; an access that finds the content root present returns the
\* snapshot held, unchanged, whatever happened to the files; an access that
\* finds the content root absent replaces the snapshot held by the empty
\* snapshot and returns that.
WarmProductionNeverRecomputes ==
  [][(AccessStep /\ nodeEnv = "production" /\ cachedSnapshot # NULL)
     => /\ ~lastAccess'.computed
        /\ lastAccess'.builds = 0
        /\ ~lastAccess'.raised
        /\ IF rootExists
           THEN /\ lastAccess'.result = cachedSnapshot
                /\ cachedSnapshot' = cachedSnapshot
                /\ cachedVersion' = cachedVersion
           ELSE /\ lastAccess'.result = EmptySnapshot
                /\ cachedSnapshot' = EmptySnapshot]_vars

\* C5 witness: a warm production access served documents that are no longer
\* what the content directory holds
WarmProductionNeverRecomputesWitness ==
  /\ nodeEnv = "production"
  /\ lastAccess.wasWarm /\ lastAccess.rootSeen
  /\ ~lastAccess.computed
  /\ lastAccess.result = cachedSnapshot
  /\ Len(cachedSnapshot.docs) > 0
  /\ cachedSnapshot # createSnapshot(rootExists, files)
  /\ sinceAccess = "none"

\* C6 as claimed: live-editing mode: when a file was added, removed or had
\* its modification time raised since the previous access, the fingerprint
\* differs from the recorded one and the access rebuilds.
AnyFileChangeInvalidates ==
  [][(/\ AccessStep
      /\ nodeEnv # "production"
      /\ rootExists
      /\ cachedSnapshot # NULL
      /\ sinceAccess \in {"added", "removed", "raised"})
     => /\ FingerprintOf(files) # cachedVersion
        /\ lastAccess'.builds = 1]_vars

\* C6 amended: live-editing mode, content root present: when, since the
\* previous access, the number of files or the largest modification time
\* changed - in particular after one file was added or one file was removed
\* and nothing else, or a modification time rose above the largest one -
\* the fingerprint differs from the recorded one and the access rebuilds.
FingerprintChangeInvalidates ==
  [][(/\ AccessStep
      /\ nodeEnv # "production"
      /\ rootExists
      /\ cachedSnapshot # NULL
      /\ \/ sinceAccess \in {"added", "removed"}
         \/ FileCountOf(files) # cachedVersion.fileCount
         \/ MaxMtimeOf(files) # cachedVersion.maxMtimeMs)
     => /\ FingerprintOf(files) # cachedVersion
        /\ lastAccess'.builds = 1
        /\ lastAccess'.result = createSnapshot(TRUE, files)
        /\ cachedSnapshot' = createSnapshot(TRUE, files)
        /\ cachedVersion' = FingerprintOf(files)]_vars

\* C6 witness: a warm live-editing access rebuilt and now holds the
\* snapshot and the fingerprint of the changed content directory
FingerprintChangeInvalidatesWitness ==
  /\ nodeEnv = "development"
  /\ lastAccess.wasWarm /\ lastAccess.rootSeen
  /\ lastAccess.builds = 1
  /\ sinceAccess = "none"
  /\ cachedVersion = FingerprintOf(files)
  /\ cachedVersion.fileCount = 2
  /\ cachedSnapshot = createSnapshot(TRUE, files)

\* the persisted file is absent, unreadable, unparsable, of another schema
\* version or of another fingerprint
PersistedUnusable ==
  \/ disk.state \in {"missing", "unreadable", "unparsable"}
  \/ disk.schemaVersion # SNAPSHOT_SCHEMA_VERSION
  \/ disk.version # FingerprintOf(files)

\* C7: a cold production access that finds the persisted file absent,
\* unreadable, unparsable, of another schema version or of another
\* fingerprint does not adopt it: it builds, returns the built snapshot,
\* leaves the cache warm and raises no error, whether or not the write of
\* the persisted file succeeds.
PersistenceFailuresAreSoftMisses ==
  [][(/\ AccessStep
      /\ nodeEnv = "production"
      /\ rootExists
      /\ cachedSnapshot = NULL
      /\ PersistedUnusable)
     => /\ ~lastAccess'.raised
        /\ lastAccess'.builds = 1
        /\ lastAccess'.wrote \in {"ok", "failed"}
        /\ lastAccess'.result = createSnapshot(TRUE, files)
        /\ cachedSnapshot' = createSnapshot(TRUE, files)
        /\ cachedVersion' = FingerprintOf(files)]_vars

\* C7 witness: the persisted file could not be parsed and the write failed
\* too, and the access still returned the built documents
PersistenceFailuresAreSoftMissesWitness ==
  /\ nodeEnv = "production"
  /\ lastAccess.n # 0 /\ ~lastAccess.wasWarm
  /\ lastAccess.diskSeen = "unparsable"
  /\ lastAccess.wrote = "failed"
  /\ disk.state = "unparsable"
  /\ lastAccess.builds = 1
  /\ ~lastAccess.raised
  /\ lastAccess.result = cachedSnapshot
  /\ Len(cachedSnapshot.docs) > 0

\* C8: in both modes an access that finds the content root absent returns
\* the empty snapshot and raises no error.
MissingRootGivesEmptySnapshot ==
  [][(AccessStep /\ ~rootExists)
     => /\ lastAccess'.result = EmptySnapshot
        /\ ~lastAccess'.raised]_vars

\* C8 witness: a production process whose cache was warm got the empty
\* snapshot once the content root was gone
MissingRootGivesEmptySnapshotWitness ==
  /\ nodeEnv = "production"
  /\ lastAccess.n # 0 /\ lastAccess.wasWarm /\ ~lastAccess.rootSeen
  /\ ~rootExists
  /\ lastAccess.result = EmptySnapshot
  /\ ~lastAccess.raised

\* C22: an access that builds leaves the build's result, which is the build
\* of the content directory as it is, in cachedSnapshot and its fingerprint
\* in cachedVersion (accesses are synchronous, so the last build to finish
\* is the last to have started); and while the content directory stays as
\* it was at an access that returned the build of that directory, the next
\* access returns the same snapshot without building and keeps it cached
LastBuildIsServed ==
  [][AccessStep =>
      /\ lastAccess'.builds = 1 =>
           /\ lastAccess'.result = createSnapshot(rootExists, files)
           /\ cachedSnapshot' = lastAccess'.result
           /\ cachedVersion' = computeDocsVersion(files, <<>>)
      /\ (/\ lastAccess.n # 0
          /\ sinceAccess = "none"
          /\ lastAccess.result = createSnapshot(rootExists, files)
          /\ cachedSnapshot = lastAccess.result)
         => /\ lastAccess'.builds = 0
            /\ lastAccess'.result = lastAccess.result
            /\ cachedSnapshot' = cachedSnapshot]_vars

\* C22 witness: a process whose cache was warm has built again, and the
\* cache holds the documents of this last build
LastBuildIsServedWitness ==
  /\ nodeEnv = "development"
  /\ lastAccess.n # 0 /\ lastAccess.wasWarm /\ lastAccess.rootSeen
  /\ lastAccess.builds = 1
  /\ sinceAccess = "none"
  /\ cachedSnapshot = lastAccess.result
  /\ cachedSnapshot = createSnapshot(rootExists, files)
  /\ Len(cachedSnapshot.docs) > 0

\* the file leaves of a tree, in order, each with its relPath and the names
\* of the folders above it
RECURSIVE FileLeaves(_, _)
FileLeaves(nodes, chain) ==
  IF nodes = <<>> THEN <<>>
  ELSE LET node == Head(nodes) IN
       (IF node.type = "file"
        THEN << [relPath |-> node.relPath, chain |-> chain] >>
        ELSE FileLeaves(node.children, Append(chain, node.name)))
       \o FileLeaves(Tail(nodes), chain)

RECURSIVE NoEmptyFolder(_)
NoEmptyFolder(nodes) ==
  \A i \in 1..Len(nodes) :
     nodes[i].type = "folder" =>
       /\ Len(FileLeaves(nodes[i].children, <<>>)) > 0
       /\ NoEmptyFolder(nodes[i].children)

\* the directory segments of a relPath
DirectoryOf(relPath) ==
  SubSeq(split(relPath, SLASH), 1, Len(split(relPath, SLASH)) - 1)

SnapshotConsistent(snap) ==
  LET leaves == FileLeaves(snap.tree, <<>>) IN
  /\ Len(snap.slugs) = Len(snap.docs)
  /\ \A i \in 1..Len(snap.docs) : snap.slugs[i] = snap.docs[i].slug
  /\ Len(snap.searchEntries) = Len(snap.docs)
  /\ \A i \in 1..Len(snap.docs) :
       snap.searchEntries[i] =
         [relPath |-> snap.docs[i].relPath, slug |-> snap.docs[i].slug,
          title |-> snap.docs[i].title,
          description |-> snap.docs[i].description]
  /\ Len(leaves) = Len(snap.docs)
  /\ \A i \in 1..Len(snap.docs) :
       \E k \in 1..Len(leaves) :
          /\ leaves[k].relPath = snap.docs[i].relPath
          /\ leaves[k].chain = DirectoryOf(snap.docs[i].relPath)
  /\ NoEmptyFolder(snap.tree)

\* C25: every snapshot getSnapshot returns, built or adopted from the
\* persisted file, has one slug and one search entry per document, in the
\* order of docs and equal to the document's slug and projection, and a
\* tree with one file leaf per document under the folders of its relPath
\* and no folder without a file below it
ReturnedSnapshotIsConsistent ==
  (lastAccess.n # 0 /\ ~lastAccess.raised) =>
    SnapshotConsistent(lastAccess.result)

(***************************************************************************)
(* Asset endpoint (pages/api/about-asset/[...path].ts)                     *)
(***************************************************************************)
\* absolute paths are lists of segments; ABOUT_ROOT is /c/r
ABOUT_ROOT == << <<"c">>, <<"r">> >>

\* where a symlink that leaves the root points to: /c/o (a directory
\* holding the file f) and /c/o/f
OUTSIDE_DIR == << <<"c">>, <<"o">> >>
OUTSIDE_FILE == << <<"c">>, <<"o">>, <<"f">> >>
\* where a symlink that stays inside the root points to: /c/r/t
INSIDE_TARGET == << <<"c">>, <<"r">>, <<"t">> >>

\* decodeURIComponent on the escapes the model uses: %2F, %5C, %2E
RECURSIVE decodeURIComponent(_)
decodeURIComponent(s) ==
  IF Len(s) = 0 THEN <<>>
  ELSE IF Len(s) >= 3 /\ SubSeq(s, 1, 3) = <<"%", "2", "F">>
  THEN <<"/">> \o decodeURIComponent(sliceFrom(s, 3))
  ELSE IF Len(s) >= 3 /\ SubSeq(s, 1, 3) = <<"%", "5", "C">>
  THEN <<"\\">> \o decodeURIComponent(sliceFrom(s, 3))
  ELSE IF Len(s) >= 3 /\ SubSeq(s, 1, 3) = <<"%", "2", "E">>
  THEN <<".">> \o decodeURIComponent(sliceFrom(s, 3))
  ELSE <<Head(s)>> \o decodeURIComponent(Tail(s))

\* the walk of path.resolve over the segments of the second argument
RECURSIVE normalizeOnto(_, _)
normalizeOnto(stack, segs) ==
  IF Len(segs) = 0 THEN stack
  ELSE LET segment == Head(segs) IN
       IF segment = <<>> \/ segment = DOT THEN normalizeOnto(stack, Tail(segs))
       ELSE IF segment = DOTDOT
       THEN normalizeOnto(SubSeq(stack, 1, Len(stack) - 1), Tail(segs))
       ELSE normalizeOnto(Append(stack, segment), Tail(segs))

\* path.resolve(root, relativePath): an absolute second argument replaces the root
pathResolve(root, relativePath) ==
  IF startsWith(relativePath, <<SLASH>>)
  THEN normalizeOnto(<<>>, split(relativePath, SLASH))
  ELSE normalizeOnto(root, split(relativePath, SLASH))

\* length of the longest common prefix of two segment lists
commonPrefix(a, b) ==
  CHOOSE n \in 0..Len(a) :
    /\ n <= Len(b)
    /\ SubSeq(a, 1, n) = SubSeq(b, 1, n)
    /\ \A m \in (n+1)..Len(a) : m > Len(b) \/ SubSeq(a, 1, m) # SubSeq(b, 1, m)

\* path.relative(from, to) as a string
pathRelative(from, to) ==
  LET n == commonPrefix(from, to)
  IN join([i \in 1..(Len(from) - n) |-> DOTDOT] \o SubSeq(to, n + 1, Len(to)), SLASH)

isPathInside(rootPath, targetPath) ==
  LET relative == pathRelative(rootPath, targetPath) IN
  /\ Len(relative) > 0
  /\ ~startsWith(relative, DOTDOT)
  /\ ~startsWith(relative, <<SLASH>>)

\* what may sit at /c/r/a
EntryKinds ==
  {"missing", "file", "dir", "linkInFile", "linkOutFile", "linkOutDir", "linkDangling"}

ENTRY == <<"a">>
CHILD == <<"f">>

\* kind of what an absolute path names, following symlinks in the directory
\* part: directories (inside and outside) hold one regular file f
kindAt(rootThere, ents, absPath) ==
  IF ~rootThere THEN "missing"
  ELSE IF absPath = Append(ABOUT_ROOT, ENTRY) THEN ents
  ELSE IF absPath = Append(Append(ABOUT_ROOT, ENTRY), CHILD)
  THEN (IF ents = "dir" THEN "file"
        ELSE IF ents = "linkOutDir" THEN "fileInLinkedDir"
        ELSE "missing")
  ELSE "missing"

\* fs.stat: follows symlinks
statOf(kind) ==
  IF kind \in {"missing", "linkDangling"} THEN "ENOENT"
  ELSE IF kind \in {"dir", "linkOutDir"} THEN "directory"
  ELSE "file"

\* fs.realpath: NULL stands for the ENOENT rejection
realpathOf(kind, absPath) ==
  IF kind \in {"missing", "linkDangling"} THEN NULL
  ELSE IF kind = "linkInFile" THEN [path |-> INSIDE_TARGET]
  ELSE IF kind = "linkOutFile" THEN [path |-> OUTSIDE_FILE]
  ELSE IF kind = "linkOutDir" THEN [path |-> OUTSIDE_DIR]
  ELSE IF kind = "fileInLinkedDir" THEN [path |-> OUTSIDE_FILE]
  ELSE [path |-> absPath]

\* fs.readFile: whose bytes come back; "ENOENT" / "EISDIR" are rejections
readFileOf(kind) ==
  IF kind \in {"missing", "linkDangling"} THEN "ENOENT"
  ELSE IF kind \in {"dir", "linkOutDir"} THEN "EISDIR"
  ELSE IF kind \in {"linkOutFile", "fileInLinkedDir"} THEN "outside"
  ELSE "inside"

\* req.query.path of the requests the model sends
Requests ==
  { << >>,
    << <<"a">> >>,
    << <<"a">>, <<"f">> >>,
    << <<"b">> >>,
    << <<".", ".">>, <<"o">>, <<"f">> >>,
    << <<"%", "2", "E", "%", "2", "E">>, <<"o">>, <<"f">> >>,
    << <<"a">>, <<".", ".">> >>,
    << <<".", ".", "%", "5", "C", "o", "%", "2", "F", "f">> >>,
    << <<"%", "2", "F", "c", "%", "2", "F", "o", "%", "2", "F", "f">> >>,
    << <<".", ".", "a">> >> }

NoResponse == [status |-> 0, served |-> "none", raised |-> FALSE]
Respond(status) == [status |-> status, served |-> "none", raised |-> FALSE]
\* an exception leaves the handler: the framework answers 500
Raised == [status |-> 500, served |-> "none", raised |-> TRUE]

AssetInit ==
  /\ aboutRootExists \in BOOLEAN
  /\ entries \in (IF aboutRootExists THEN EntryKinds ELSE {"missing"})
  /\ reqSegments = <<>>
  /\ reqEtag = FALSE
  /\ assetPc = "idle"
  /\ absolutePath = <<>>
  /\ statKind = "none"
  /\ response = NoResponse
  /\ sawMissing = FALSE

\* a request arrives; the handler calls fs.access(ABOUT_ROOT)
ReceiveRequest ==
  /\ assetPc \in {"idle", "done"}
  /\ reqSegments' \in Requests
  /\ reqEtag' \in BOOLEAN
  /\ assetPc' = "access"
  /\ absolutePath' = <<>>
  /\ statKind' = "none"
  /\ response' = NoResponse
  /\ sawMissing' = FALSE
  /\ UNCHANGED <<aboutRootExists, entries>>
  /\ UNCHANGED <<pathVars, cacheVars, libVars, pageVars>>

\* safeRelativePath of the handler
safeRelativePathOf(pathSegments) ==
  replaceBackslashes(
    join([i \in 1..Len(pathSegments) |-> decodeURIComponent(pathSegments[i])], SLASH))

\* fs.access settles; then the synchronous part up to the call of fs.stat
AccessSettles ==
  /\ assetPc = "access"
  /\ IF ~aboutRootExists
     THEN /\ response' = Respond(404)
          /\ assetPc' = "done"
          /\ UNCHANGED absolutePath
     ELSE IF Len(reqSegments) = 0
     THEN /\ response' = Respond(400)
          /\ assetPc' = "done"
          /\ UNCHANGED absolutePath
     ELSE /\ absolutePath' = pathResolve(ABOUT_ROOT, safeRelativePathOf(reqSegments))
          /\ IF ~isPathInside(ABOUT_ROOT, absolutePath')
             THEN /\ response' = Respond(400)
                  /\ assetPc' = "done"
             ELSE /\ assetPc' = "stat"
                  /\ UNCHANGED response
  /\ UNCHANGED <<aboutRootExists, entries, reqSegments, reqEtag, statKind, sawMissing>>
  /\ UNCHANGED <<pathVars, cacheVars, libVars, pageVars>>

\* fs.stat settles; the handler goes on to fs.realpath(ABOUT_ROOT)
StatSettles ==
  /\ assetPc = "stat"
  /\ statKind' = statOf(kindAt(aboutRootExists, entries, absolutePath))
  /\ IF statKind' \in {"ENOENT", "directory"}
     THEN /\ response' = Respond(404)
          /\ assetPc' = "done"
          /\ sawMissing' = TRUE
     ELSE /\ assetPc' = "realRoot"
          /\ UNCHANGED <<response, sawMissing>>
  /\ UNCHANGED <<aboutRootExists, entries, reqSegments, reqEtag, absolutePath>>
  /\ UNCHANGED <<pathVars, cacheVars, libVars, pageVars>>

\* fs.realpath(ABOUT_ROOT) settles: no try / catch around it
RealRootSettles ==
  /\ assetPc = "realRoot"
  /\ IF ~aboutRootExists
     THEN /\ response' = Raised
          /\ assetPc' = "done"
          /\ sawMissing' = TRUE
     ELSE /\ assetPc' = "realFile"
          /\ UNCHANGED <<response, sawMissing>>
  /\ UNCHANGED <<aboutRootExists, entries, reqSegments, reqEtag, absolutePath, statKind>>
  /\ UNCHANGED <<pathVars, cacheVars, libVars, pageVars>>

\* fs.realpath(absolutePath) settles: no try / catch around it; then the
\* containment test, the ETag test and the call of fs.readFile
RealFileSettles ==
  /\ assetPc = "realFile"
  /\ LET realFile == realpathOf(kindAt(aboutRootExists, entries, absolutePath),
                                absolutePath)
     IN IF realFile = NULL
        THEN /\ response' = Raised
             /\ assetPc' = "done"
             /\ sawMissing' = TRUE
        ELSE IF ~isPathInside(ABOUT_ROOT, realFile.path)
        THEN /\ response' = Respond(400)
             /\ assetPc' = "done"
             /\ UNCHANGED sawMissing
        ELSE IF reqEtag
        THEN /\ response' = Respond(304)
             /\ assetPc' = "done"
             /\ UNCHANGED sawMissing
        ELSE /\ assetPc' = "read"
             /\ UNCHANGED <<response, sawMissing>>
  /\ UNCHANGED <<aboutRootExists, entries, reqSegments, reqEtag, absolutePath, statKind>>
  /\ UNCHANGED <<pathVars, cacheVars, libVars, pageVars>>

\* fs.readFile(absolutePath) settles: no try / catch around it; the bytes
\* are those of whatever the path names now
ReadSettles ==
  /\ assetPc = "read"
  /\ LET got == readFileOf(kindAt(aboutRootExists, entries, absolutePath))
     IN IF got \in {"ENOENT", "EISDIR"}
        THEN /\ response' = Raised
             /\ sawMissing' = TRUE
        ELSE /\ response' = [status |-> 200, served |-> got, raised |-> FALSE]
             /\ UNCHANGED sawMissing
  /\ assetPc' = "done"
  /\ UNCHANGED <<aboutRootExists, entries, reqSegments, reqEtag, absolutePath, statKind>>
  /\ UNCHANGED <<pathVars, cacheVars, libVars, pageVars>>

\* another process replaces what /c/r/a is: removes it, creates it, turns
\* it into a directory or a symlink
ChangeEntry ==
  /\ aboutRootExists
  /\ \E k \in EntryKinds : k # entries /\ entries' = k
  /\ UNCHANGED <<aboutRootExists, reqSegments, reqEtag, assetPc, absolutePath,
                 statKind, response, sawMissing>>
  /\ UNCHANGED <<pathVars, cacheVars, libVars, pageVars>>

RemoveAboutRoot ==
  /\ aboutRootExists
  /\ aboutRootExists' = FALSE
  /\ entries' = "missing"
  /\ UNCHANGED <<reqSegments, reqEtag, assetPc, absolutePath, statKind, response,
                 sawMissing>>
  /\ UNCHANGED <<pathVars, cacheVars, libVars, pageVars>>

CreateAboutRoot ==
  /\ ~aboutRootExists
  /\ aboutRootExists' = TRUE
  /\ UNCHANGED <<entries, reqSegments, reqEtag, assetPc, absolutePath, statKind,
                 response, sawMissing>>
  /\ UNCHANGED <<pathVars, cacheVars, libVars, pageVars>>

AssetNext ==
  \/ ReceiveRequest
  \/ AccessSettles
  \/ StatSettles
  \/ RealRootSettles
  \/ RealFileSettles
  \/ ReadSettles
  \/ ChangeEntry
  \/ RemoveAboutRoot
  \/ CreateAboutRoot

(***************************************************************************)
(* Claims about the asset endpoint                                         *)
(***************************************************************************)
\* C9: the handler never sends a 200 response carrying a file whose real
\* path lies outside the content root.
AssetNeverServedFromOutside ==
  response.status = 200 => response.served = "inside"

\* C10: whenever the target of a request is found absent or a directory, at
\* whatever point of the handling, the response is 404 and no error is raised.
MissingTargetAnswers404 ==
  (assetPc = "done" /\ sawMissing) => (response.status = 404 /\ ~response.raised)

(***************************************************************************)
(* Claims about the routes of links and images                             *)
(***************************************************************************)
\* the url starts with one of the prefixes, as written
BeginsWithOneOf(url, prefixes) == \E p \in prefixes : startsWith(url, p)

ListedSchemes ==
  {STR_HTTP, STR_HTTPS, STR_MAILTO, STR_TEL, STR_HASH, STR_DATA, STR_SLASHSLASH}

LinkHooks == {"resolveMarkdownHref", "resolveAboutHref"}
ImageHooks == {"resolveImageSrc", "resolveAboutImageSrc"}

\* C11 as stated: a URL that starts with http:, https:, mailto:, tel:, '#',
\* data: or '//' comes back unchanged from the link hook and from the image
\* hook alike, whatever the referencing document.
ListedSchemesPassEveryHook ==
  (linkResult.op \in LinkHooks \cup ImageHooks /\ BeginsWithOneOf(rawHref, ListedSchemes))
    => linkResult.value = rawHref

\* C11 amended: a URL that starts with http:, https:, mailto:, tel:, '#',
\* data: or '//' comes back unchanged from the link hook; the image hook
\* passes only http:, https:, data: and '//' through unchanged, and resolves
\* a src that starts with mailto:, tel: or '#' like a relative path.
ListedSchemesPassThrough ==
  /\ (linkResult.op \in LinkHooks /\ BeginsWithOneOf(rawHref, ListedSchemes))
       => linkResult.value = rawHref
  /\ (/\ linkResult.op \in ImageHooks
      /\ BeginsWithOneOf(rawHref, {STR_HTTP, STR_HTTPS, STR_DATA, STR_SLASHSLASH}))
       => linkResult.value = rawHref

ListedSchemesPassThroughWitness ==
  /\ linkResult.op = "resolveAboutImageSrc"
  /\ docPath = <<"a", "/", "a", ".", "m", "d">>
  /\ rawHref = <<"d", "a", "t", "a", ":", "a">>
  /\ linkResult.value = rawHref

\* the resolved path of the link, null when it does not resolve
ResolvedPathOf(href, currentDocPath) ==
  resolveDocsRelativePath(currentDocPath, splitPathAndSuffix(href).pathname)

\* a link, not a listed URL, with a path part that resolves
ResolvesAsLink(href, currentDocPath) ==
  /\ ~BeginsWithOneOf(toLowerCase(href), ListedSchemes)
  /\ Len(splitPathAndSuffix(href).pathname) > 0
  /\ ResolvedPathOf(href, currentDocPath) # null

EndsInMarkdownExtension(p) ==
  endsWith(toLowerCase(p), STR_MD) \/ endsWith(toLowerCase(p), STR_MDX)

\* C12: a link whose path resolves and ends in .md or .mdx, in any letter
\* case, maps to '/docs/' followed by the resolved path without the
\* extension, percent-encoded segment by segment, followed by the original
\* suffix.
MarkdownLinkMapsToDocRoute ==
  (/\ linkResult.op = "resolveMarkdownHref"
   /\ ResolvesAsLink(rawHref, docPath)
   /\ EndsInMarkdownExtension(ResolvedPathOf(rawHref, docPath)))
    => linkResult.value =
         STR_DOCS \o <<SLASH>>
           \o encodePath(stripDocExtension(ResolvedPathOf(rawHref, docPath)))
           \o splitPathAndSuffix(rawHref).suffix

MarkdownLinkMapsToDocRouteWitness ==
  /\ linkResult.op = "resolveMarkdownHref"
  /\ docPath = <<"a", "/", "a", ".", "m", "d">>
  /\ rawHref = <<"a", " ", "a", ".", "m", "d", "#", "a">>
  /\ linkResult.value =
       <<"/", "d", "o", "c", "s", "/", "a", "/", "a", "%", "2", "0", "a", "#", "a">>

\* C13: a link whose resolved path has no Markdown extension maps to the
\* document route of the resolved path exactly when the resolved path plus
\* '.md' or plus '.mdx' is a known document path, and to '/api/docs-asset/'
\* followed by the percent-encoded resolved path otherwise; the original
\* suffix follows in both cases.
ExtensionlessLinkRouting ==
  (/\ linkResult.op = "resolveMarkdownHref"
   /\ ResolvesAsLink(rawHref, docPath)
   /\ ~EndsInMarkdownExtension(ResolvedPathOf(rawHref, docPath)))
    => LET r == ResolvedPathOf(rawHref, docPath)
           suffix == splitPathAndSuffix(rawHref).suffix
       IN IF (r \o STR_MD) \in DocPaths \/ (r \o STR_MDX) \in DocPaths
          THEN linkResult.value = STR_DOCS \o <<SLASH>> \o encodePath(r) \o suffix
          ELSE linkResult.value = STR_DOCS_ASSET \o encodePath(r) \o suffix

ExtensionlessLinkRoutingWitness ==
  /\ linkResult.op = "resolveMarkdownHref"
  /\ docPath = <<"a", "/", "a", ".", "m", "d">>
  /\ rawHref = <<"/", "a", "/", "d">>
  /\ linkResult.value = <<"/", "d", "o", "c", "s", "/", "a", "/", "d">>

(***************************************************************************)
(* Heading hook of renderMarkdownToHtml (lib/docs.ts)                      *)
(***************************************************************************)
\* number of heading tokens of a rendered document
MaxHeadings == 3

Whitespace == {" ", "\t"}
\* the characters slugify deletes, among those the model uses
SlugPunctuation == {"!", "#", "?", "/", "\\", ".", ":", "|", "[", "]"}

\* String.prototype.trim
RECURSIVE trimStart(_)
trimStart(s) ==
  IF Len(s) > 0 /\ Head(s) \in Whitespace THEN trimStart(Tail(s)) ELSE s

RECURSIVE trimEnd(_)
trimEnd(s) ==
  IF Len(s) > 0 /\ s[Len(s)] \in Whitespace
  THEN trimEnd(SubSeq(s, 1, Len(s) - 1)) ELSE s

trim(s) == trimEnd(trimStart(s))

\* replace(/[set]+/g, rep): every maximal run of characters of the set
\* becomes rep
RECURSIVE replaceRuns(_, _, _)
replaceRuns(s, set, rep) ==
  IF Len(s) = 0 THEN <<>>
  ELSE IF Head(s) \in set
  THEN IF Len(s) > 1 /\ s[2] \in set
       THEN replaceRuns(Tail(s), set, rep)
       ELSE rep \o replaceRuns(Tail(s), set, rep)
  ELSE <<Head(s)>> \o replaceRuns(Tail(s), set, rep)

\* slugify without the last replace(/-+/g, "-")
slugifyHyphensNotCollapsed(input) ==
  LET lowered == trim(toLowerCase(input))
      stripped == SelectSeq(lowered, LAMBDA c : c \notin SlugPunctuation)
  IN replaceRuns(stripped, Whitespace, <<"-">>)

slugify(input) ==
  LET lowered == trim(toLowerCase(input))
      stripped == SelectSeq(lowered, LAMBDA c : c \notin SlugPunctuation)
  IN replaceRuns(replaceRuns(stripped, Whitespace, <<"-">>), {"-"}, <<"-">>)

STR_SECTION == <<"s", "e", "c", "t", "i", "o", "n">>

\* Number.prototype.toString for the counts the model reaches
RECURSIVE numberToString(_)
numberToString(n) ==
  IF n < 10 THEN << <<"0", "1", "2", "3", "4", "5", "6", "7", "8", "9">>[n + 1] >>
  ELSE numberToString(n \div 10) \o numberToString(n % 10)

\* slugify(text) || "section"
headingBase(text) ==
  IF Len(slugify(text)) = 0 THEN STR_SECTION ELSE slugify(text)

\* the suffix counted from one instead of from the number of earlier uses
headingIdCountedFromOne(base, count) ==
  base \o <<"-">> \o numberToString(count + 1)

\* count ? `${base}-${count}` : base
headingId(base, count) ==
  IF count # 0 THEN base \o <<"-">> \o numberToString(count) ELSE base

\* every level up to 3 recorded
isListedLevelUpTo3(depth) == depth <= 3

\* depth >= 2 && depth <= 3
isListedLevel(depth) == depth >= 2 /\ depth <= 3

\* heading texts of the documents of the model: two that slugify to "a",
\* one that slugifies to "", one that is the fallback itself and one that
\* ends in a counter suffix
HeadingTexts ==
  { <<"a">>, <<" ", "A", "!">>, <<"!">>, STR_SECTION, <<"a", "-", "1">> }
HeadingDepths == 1..4
HeadingTokens == [text : HeadingTexts, depth : HeadingDepths]
HeadingBases == {headingBase(t) : t \in HeadingTexts}

Documents == UNION {[1..n -> HeadingTokens] : n \in 0..MaxHeadings}

\* a call of renderMarkdownToHtml starts: fresh headingCounts and headings
RenderInit ==
  /\ mdHeadings \in Documents
  /\ headingPos = 0
  /\ headingCounts = [b \in HeadingBases |-> 0]
  /\ headings = <<>>
  /\ htmlHeadings = <<>>

RenderIdle ==
  /\ mdHeadings = <<>>
  /\ headingPos = 0
  /\ headingCounts = [b \in HeadingBases |-> 0]
  /\ headings = <<>>
  /\ htmlHeadings = <<>>

\* renderer.heading called with the next heading token of the document
RenderHeading ==
  /\ headingPos < Len(mdHeadings)
  /\ LET token == mdHeadings[headingPos + 1]
         base == headingBase(token.text)
         count == headingCounts[base]
         id == headingId(base, count)
     IN /\ headingCounts' = [headingCounts EXCEPT ![base] = count + 1]
        /\ headings' = IF isListedLevel(token.depth)
                       THEN Append(headings,
                                   [id |-> id, level |-> token.depth, text |-> token.text])
                       ELSE headings
        /\ htmlHeadings' = Append(htmlHeadings, [depth |-> token.depth, id |-> id])
  /\ headingPos' = headingPos + 1
  /\ UNCHANGED mdHeadings
  /\ UNCHANGED <<pathVars, cacheVars, assetVars, treeVars, embedVars, pageVars>>

\* the render is over; the next call of renderMarkdownToHtml on the
\* document (the next snapshot build) starts afresh
RenderAgain ==
  /\ headingPos = Len(mdHeadings)
  /\ headingPos > 0
  /\ UNCHANGED mdHeadings
  /\ headingPos' = 0
  /\ headingCounts' = [b \in HeadingBases |-> 0]
  /\ headings' = <<>>
  /\ htmlHeadings' = <<>>
  /\ UNCHANGED <<pathVars, cacheVars, assetVars, treeVars, embedVars, pageVars>>

RenderNext ==
  \/ RenderHeading
  \/ RenderAgain

(***************************************************************************)
(* Claims about heading ids and the heading list                           *)
(***************************************************************************)
\* number of headings before position i with the same base as heading i
EarlierSameBase(i) ==
  Cardinality({j \in 1..(i - 1) :
                 headingBase(mdHeadings[j].text) = headingBase(mdHeadings[i].text)})

\* C14: within one render, among the headings (of any level) with the same
\* base - the slug of the text, or "section" when the slug is empty - the
\* first gets id 'base' and the Nth (N >= 2) gets id 'base-(N-1)', in
\* document order.
HeadingIdsCountOccurrences ==
  /\ Len(htmlHeadings) = headingPos
  /\ \A i \in 1..headingPos :
       LET base == headingBase(mdHeadings[i].text)
           n == EarlierSameBase(i) + 1
       IN htmlHeadings[i].id =
            IF n = 1 THEN base ELSE base \o <<"-">> \o numberToString(n - 1)

HeadingIdsCountOccurrencesWitness ==
  /\ headingPos = 3
  /\ mdHeadings[1].text = <<"a">> /\ mdHeadings[1].depth = 1
  /\ mdHeadings[2].text = <<" ", "A", "!">> /\ mdHeadings[2].depth = 4
  /\ mdHeadings[3].text = <<"a">> /\ mdHeadings[3].depth = 2
  /\ htmlHeadings[1].id = <<"a">>
  /\ htmlHeadings[2].id = <<"a", "-", "1">>
  /\ htmlHeadings[3].id = <<"a", "-", "2">>

\* positions, among the first n headings, of the level-2 and level-3 ones
RECURSIVE ListedPositions(_)
ListedPositions(n) ==
  IF n = 0 THEN <<>>
  ELSE IF mdHeadings[n].depth \in {2, 3}
  THEN Append(ListedPositions(n - 1), n)
  ELSE ListedPositions(n - 1)

\* C15: the heading list holds exactly the level-2 and level-3 headings
\* rendered so far, in document order, each with its level, its text and the
\* id emitted in the HTML for it; level-1 and level >= 4 headings are not in
\* the list.
HeadingListIsLevels2And3 ==
  LET listed == ListedPositions(headingPos) IN
  /\ Len(headings) = Len(listed)
  /\ \A k \in 1..Len(listed) :
       /\ headings[k].id = htmlHeadings[listed[k]].id
       /\ headings[k].level = mdHeadings[listed[k]].depth
       /\ headings[k].text = mdHeadings[listed[k]].text

HeadingListIsLevels2And3Witness ==
  /\ headingPos = 3
  /\ mdHeadings[1].depth = 1 /\ mdHeadings[2].depth = 3 /\ mdHeadings[3].depth = 4
  /\ mdHeadings[1].text = <<"!">> /\ mdHeadings[2].text = STR_SECTION
  /\ headings = << [id |-> <<"s", "e", "c", "t", "i", "o", "n", "-", "1">>,
                    level |-> 3, text |-> STR_SECTION] >>

\* C23: the ids of the heading elements emitted within one render are
\* pairwise distinct
HeadingIdsPairwiseDistinct ==
  \A i, j \in 1..Len(htmlHeadings) :
     i # j => htmlHeadings[i].id # htmlHeadings[j].id

(***************************************************************************)
(* Document lookup and tree over lists of documents (lib/docs.ts)          *)
(***************************************************************************)
\* length of the document lists of the model
MaxDocs == 3

STR_WELCOME ==
  <<"g", "e", "t", "t", "i", "n", "g", "-", "s", "t", "a", "r", "t", "e", "d", "/",
    "w", "e", "l", "c", "o", "m", "e", ".", "m", "d">>
STR_SLASH_README == <<"/", "R", "E", "A", "D", "M", "E", ".", "m", "d">>

\* index of the first element of the list that passes the test, 0 when none
\* does: Array.prototype.find
findIndex(list, Test(_)) ==
  IF \E i \in 1..Len(list) : Test(list[i])
  THEN CHOOSE i \in 1..Len(list) :
         Test(list[i]) /\ \A j \in 1..(i - 1) : ~Test(list[j])
  ELSE 0

\* findDocBySlug without the '/README.md' preference
findDocBySlugNoReadme(docs, slug) ==
  IF Len(docs) = 0 THEN NULL
  ELSE IF slug.given /\ Len(slug.segments) > 0
  THEN LET key == join(slug.segments, SLASH)
           i == findIndex(docs, LAMBDA doc : join(doc.slug, SLASH) = key)
       IN IF i = 0 THEN NULL ELSE docs[i]
  ELSE LET w == findIndex(docs, LAMBDA doc : doc.relPath = STR_WELCOME)
       IN IF w # 0 THEN docs[w] ELSE docs[1]

\* slug is [given |-> FALSE, ...] when the optional argument is absent
findDocBySlug(docs, slug) ==
  IF Len(docs) = 0 THEN NULL
  ELSE IF slug.given /\ Len(slug.segments) > 0
  THEN LET key == join(slug.segments, SLASH)
           i == findIndex(docs, LAMBDA doc : join(doc.slug, SLASH) = key)
       IN IF i = 0 THEN NULL ELSE docs[i]
  ELSE LET w == findIndex(docs, LAMBDA doc : doc.relPath = STR_WELCOME)
           r == findIndex(docs, LAMBDA doc : endsWith(doc.relPath, STR_SLASH_README))
       IN IF w # 0 THEN docs[w]
          ELSE IF r # 0 THEN docs[r]
          ELSE docs[1]

\* relPath of the documents the lists are made of: files at three depths of
\* one folder chain, the two spellings of one accented name, the names
\* findDocBySlug looks for, and one name with each document extension
ListedPaths ==
  { <<"a", ".", "m", "d">>,
    <<"s", "/", "a", ".", "m", "d">>,
    <<"s", "/", "d", ".", "m", "d">>,
    <<"s", "/", "s", "/", "a", ".", "m", "d">>,
    <<E_ACUTE, ".", "m", "d">>,
    <<"e", COMBINING_ACUTE, ".", "m", "d">>,
    STR_WELCOME,
    <<"s">> \o STR_SLASH_README,
    <<"R", "E", "A", "D", "M", "E", ".", "m", "d">>,
    <<"a", ".", "m", "d", "x">> }

\* the DocRecord fields the tree and the lookup read
docOf(p) ==
  [relPath |-> p, slug |-> split(stripDocExtension(p), SLASH), title |-> p]

\* lists of documents with pairwise distinct relPath
DocLists ==
  UNION { {[i \in 1..n |-> docOf(ps[i])] :
             ps \in {f \in [1..n -> ListedPaths] :
                       \A i, j \in 1..n : i # j => f[i] # f[j]}} :
          n \in 0..MaxDocs }

\* requested slugs: absent, empty, matching and not matching
SlugArguments ==
  { [given |-> FALSE, segments |-> <<>>],
    [given |-> TRUE, segments |-> <<>>],
    [given |-> TRUE, segments |-> << <<"a">> >>],
    [given |-> TRUE, segments |-> << <<"s">>, <<"a">> >>],
    [given |-> TRUE, segments |-> << <<"s", "/", "a">> >>],
    [given |-> TRUE, segments |-> << <<"b">> >>],
    [given |-> TRUE, segments |-> << <<>> >>] }

NoTreeResult == [op |-> "none", value |-> NULL]

TreeInit ==
  /\ docsInput \in DocLists
  /\ slugInput \in SlugArguments
  /\ treeResult = NoTreeResult

TreeIdle ==
  /\ docsInput = <<>>
  /\ slugInput = [given |-> FALSE, segments |-> <<>>]
  /\ treeResult = NoTreeResult

ApplyBuildDocsTree ==
  /\ treeResult.op = "none"
  /\ treeResult' = [op |-> "buildDocsTree", value |-> buildDocsTree(docsInput)]
  /\ UNCHANGED <<docsInput, slugInput>>
  /\ UNCHANGED <<pathVars, cacheVars, assetVars, renderVars, embedVars, pageVars>>

ApplyFindDocBySlug ==
  /\ treeResult.op = "none"
  /\ treeResult' = [op |-> "findDocBySlug",
                    value |-> findDocBySlug(docsInput, slugInput)]
  /\ UNCHANGED <<docsInput, slugInput>>
  /\ UNCHANGED <<pathVars, cacheVars, assetVars, renderVars, embedVars, pageVars>>

TreeNext ==
  \/ ApplyBuildDocsTree
  \/ ApplyFindDocBySlug

(***************************************************************************)
(* Claims about the document tree and the lookup                           *)
(***************************************************************************)
\* two neighbours of a sibling list are in order: no file before a folder,
\* and names of the same type ascending
InOrder(x, y) ==
  /\ x.type = "folder" \/ y.type = "file"
  /\ x.type = y.type => localeCompare(x.name, y.name) <= 0

RECURSIVE LevelsSorted(_)
LevelsSorted(nodes) ==
  /\ \A i \in 1..(Len(nodes) - 1) : InOrder(nodes[i], nodes[i + 1])
  /\ \A i \in 1..Len(nodes) :
       nodes[i].type = "folder" => LevelsSorted(nodes[i].children)

\* C16: in the tree returned by buildDocsTree, at the root and in every
\* folder, all folder nodes come before all file nodes, and the folders and
\* the files are each in ascending name order.
TreeLevelsAreSorted ==
  treeResult.op = "buildDocsTree" => LevelsSorted(treeResult.value)

TreeLevelsAreSortedWitness ==
  /\ treeResult.op = "buildDocsTree"
  /\ Len(docsInput) = 3
  /\ docsInput[1].relPath = <<"a", ".", "m", "d">>
  /\ docsInput[2].relPath = <<"s", "/", "d", ".", "m", "d">>
  /\ docsInput[3].relPath = <<"s", "/", "a", ".", "m", "d">>
  /\ Len(treeResult.value) = 2
  /\ treeResult.value[1].type = "folder"
  /\ treeResult.value[1].children[1].name = <<"a", ".", "m", "d">>
  /\ treeResult.value[1].children[2].name = <<"d", ".", "m", "d">>
  /\ treeResult.value[2].type = "file"

\* the lists with the same documents in another order
Reorderings(docs) ==
  {[i \in 1..Len(docs) |-> docs[f[i]]] :
     f \in {g \in [1..Len(docs) -> 1..Len(docs)] :
              \A i, j \in 1..Len(docs) : i # j => g[i] # g[j]}}

\* C17: for every list of documents with pairwise distinct relPath, the tree
\* built from any other order of the list, and the tree built a second time
\* from the same list, are identical to the tree built.
TreeIndependentOfInputOrder ==
  treeResult.op = "buildDocsTree" =>
    \A other \in Reorderings(docsInput) : buildDocsTree(other) = treeResult.value

\* C18: with an empty or absent slug findDocBySlug returns the document
\* whose relPath is 'getting-started/welcome.md' if there is one, else the
\* first whose relPath ends with '/README.md', else the first of the list,
\* else null; with a non-empty slug it returns a document whose slash-joined
\* slug equals the slash-joined requested slug, or null if there is none.
FindDocBySlugSelects ==
  treeResult.op = "findDocBySlug" =>
    LET docs == docsInput
        found == treeResult.value
        At(i) == found = docs[i]
        IsWelcome(i) == docs[i].relPath = STR_WELCOME
        IsReadme(i) == endsWith(docs[i].relPath, STR_SLASH_README)
        HasSlug(i) == join(docs[i].slug, SLASH) = join(slugInput.segments, SLASH)
        idx == 1..Len(docs)
    IN IF slugInput.given /\ Len(slugInput.segments) > 0
       THEN IF \E i \in idx : HasSlug(i)
            THEN \E i \in idx : HasSlug(i) /\ At(i)
            ELSE found = NULL
       ELSE IF \E i \in idx : IsWelcome(i)
            THEN \E i \in idx : IsWelcome(i) /\ At(i)
       ELSE IF \E i \in idx : IsReadme(i)
            THEN \E i \in idx : IsReadme(i) /\ At(i) /\ \A j \in 1..(i - 1) : ~IsReadme(j)
       ELSE IF Len(docs) > 0 THEN At(1)
       ELSE found = NULL

FindDocBySlugSelectsWitness ==
  /\ treeResult.op = "findDocBySlug"
  /\ ~slugInput.given
  /\ Len(docsInput) = 3
  /\ docsInput[1].relPath = <<"R", "E", "A", "D", "M", "E", ".", "m", "d">>
  /\ docsInput[2].relPath = <<"a", ".", "m", "d">>
  /\ docsInput[3].relPath = <<"s">> \o STR_SLASH_README
  /\ treeResult.value = docsInput[3]

\* the list is in the order createSnapshot gives to the documents of a
\* snapshot
SortedByRelPath(docs) ==
  \A i \in 1..(Len(docs) - 1) :
     localeCompare(docs[i].relPath, docs[i + 1].relPath) <= 0

\* C24: in the documents of a snapshot, a lookup by the slug of a document
\* returns that document
EveryDocumentFoundByItsSlug ==
  (/\ treeResult.op = "findDocBySlug"
   /\ SortedByRelPath(docsInput)
   /\ slugInput.given)
  => \A i \in 1..Len(docsInput) :
        docsInput[i].slug = slugInput.segments => treeResult.value = docsInput[i]

(***************************************************************************)
(* Embed preprocessor (lib/markdown-utils.ts)                              *)
(***************************************************************************)
\* length of the embed targets of the model
MaxTargetLen == 4

STR_EMBED_OPEN == <<"!", "[", "[">>
STR_EMBED_CLOSE == <<"]", "]">>
STR_DOT_SLASH == <<".", "/">>

\* the longest prefix of s without a character of stop: [^stop]+ at the
\* start of s
RECURSIVE runWithout(_, _)
runWithout(s, stop) ==
  IF Len(s) = 0 \/ Head(s) \in stop THEN <<>>
  ELSE <<Head(s)>> \o runWithout(Tail(s), stop)

\* /!\[\[([^\]\|]+?)(?:\|([^\]]+))?\]\]/ tried at the start of s
embedMatchAt(s) ==
  LET noMatch == [matched |-> FALSE, rawTarget |-> <<>>, hasAlt |-> FALSE,
                  rawAlt |-> <<>>, length |-> 0]
  IN IF ~startsWith(s, STR_EMBED_OPEN) THEN noMatch
     ELSE LET rawTarget == runWithout(sliceFrom(s, 3), {"]", "|"})
              afterTarget == sliceFrom(s, 3 + Len(rawTarget))
          IN IF Len(rawTarget) = 0 THEN noMatch
             ELSE IF startsWith(afterTarget, STR_EMBED_CLOSE)
             THEN [matched |-> TRUE, rawTarget |-> rawTarget, hasAlt |-> FALSE,
                   rawAlt |-> <<>>, length |-> 3 + Len(rawTarget) + 2]
             ELSE IF startsWith(afterTarget, <<"|">>)
             THEN LET rawAlt == runWithout(Tail(afterTarget), {"]"})
                      afterAlt == sliceFrom(afterTarget, 1 + Len(rawAlt))
                  IN IF Len(rawAlt) > 0 /\ startsWith(afterAlt, STR_EMBED_CLOSE)
                     THEN [matched |-> TRUE, rawTarget |-> rawTarget,
                           hasAlt |-> TRUE, rawAlt |-> rawAlt,
                           length |-> 3 + Len(rawTarget) + 1 + Len(rawAlt) + 2]
                     ELSE noMatch
             ELSE noMatch

\* replace(/^\/+/, "")
RECURSIVE stripLeadingSlashes(_)
stripLeadingSlashes(s) ==
  IF Len(s) > 0 /\ Head(s) = SLASH THEN stripLeadingSlashes(Tail(s)) ELSE s

\* replace(/^\.\//, "")
stripDotSlash(s) ==
  IF startsWith(s, STR_DOT_SLASH) THEN sliceFrom(s, 2) ELSE s

\* the target with replace(/^\//, "") in the place of replace(/^\/+/, "")
embedTargetOneSlashStripped(rawTarget) ==
  LET t == replaceBackslashes(trim(rawTarget))
  IN stripDotSlash(IF startsWith(t, <<SLASH>>) THEN Tail(t) ELSE t)

\* const target = rawTarget.trim().replace(...).replace(...).replace(...)
embedTarget(rawTarget) ==
  stripDotSlash(stripLeadingSlashes(replaceBackslashes(trim(rawTarget))))

\* the replacement of one match
embedReplacement(m, rootRelative) ==
  <<"!", "[">> \o trim(m.rawAlt) \o <<"]", "(">>
    \o (IF rootRelative THEN <<SLASH>> ELSE <<>>)
    \o embedTarget(m.rawTarget) \o <<")">>

\* markdown.replace(/.../g, ...): leftmost matches, left to right
RECURSIVE preprocessObsidianMarkdown(_, _)
preprocessObsidianMarkdown(markdown, rootRelative) ==
  IF Len(markdown) = 0 THEN <<>>
  ELSE LET m == embedMatchAt(markdown) IN
       IF m.matched
       THEN embedReplacement(m, rootRelative)
              \o preprocessObsidianMarkdown(sliceFrom(markdown, m.length), rootRelative)
       ELSE <<Head(markdown)>>
              \o preprocessObsidianMarkdown(Tail(markdown), rootRelative)

\* characters of the embed targets of the model
TargetChars == {"/", "\\", ".", "a", " "}
RawTargets == UNION {[1..k -> TargetChars] : k \in 1..MaxTargetLen}

STR_DIAGRAM == <<"d", "i", "a", "g", "r", "a", "m", ".", "p", "n", "g">>
STR_A_DIAGRAM == <<"A", " ", "d", "i", "a", "g", "r", "a", "m">>

\* a text with one embed: before ![[rawTarget]] after, or
\* before ![[rawTarget|rawAlt]] after
Embed(before, rawTarget, hasAlt, rawAlt, after) ==
  [kind |-> "embed", before |-> before, rawTarget |-> rawTarget,
   hasAlt |-> hasAlt, rawAlt |-> rawAlt, after |-> after]

\* a text without an embed
Plain(text) ==
  [kind |-> "plain", before |-> text, rawTarget |-> <<>>, hasAlt |-> FALSE,
   rawAlt |-> <<>>, after |-> <<>>]

EmbedTexts ==
  {Embed(<<>>, t, FALSE, <<>>, <<>>) : t \in RawTargets}
    \cup {Embed(<<"x", " ">>, t, TRUE, <<" ", "b", "|", "c", " ">>, <<"!">>) :
            t \in RawTargets}
    \cup {Embed(<<>>, STR_DIAGRAM, TRUE, STR_A_DIAGRAM, <<>>)}

PlainTexts ==
  { Plain(<<>>),
    Plain(<<"!", "[", "a", "]", "(", "b", ")">>),
    Plain(<<"!", "[", "[", "]", "]">>),
    Plain(<<"!", "[", "[", "a", "]">>),
    Plain(<<"[", "[", "a", "]", "]">>),
    Plain(<<"!", "[", "[", "a", "|", "]", "]">>),
    Plain(<<"!", "[", "[", "|", "a", "]", "]">>),
    Plain(<<"!", "[", "[", "a", "]", "b", "]", "]">>) }

\* the markdown text of an input
markdownOf(input) ==
  IF input.kind = "plain" THEN input.before
  ELSE input.before \o STR_EMBED_OPEN \o input.rawTarget
         \o (IF input.hasAlt THEN <<"|">> \o input.rawAlt ELSE <<>>)
         \o STR_EMBED_CLOSE \o input.after

NoEmbedResult == [op |-> "none", value |-> <<>>]

EmbedInit ==
  /\ embedInput \in EmbedTexts \cup PlainTexts
  /\ rootRelativeFlag \in BOOLEAN
  /\ embedResult = NoEmbedResult

EmbedIdle ==
  /\ embedInput = Plain(<<>>)
  /\ rootRelativeFlag = FALSE
  /\ embedResult = NoEmbedResult

ApplyPreprocessObsidianMarkdown ==
  /\ embedResult.op = "none"
  /\ embedResult' =
       [op |-> "preprocessObsidianMarkdown",
        value |-> preprocessObsidianMarkdown(markdownOf(embedInput), rootRelativeFlag)]
  /\ UNCHANGED <<embedInput, rootRelativeFlag>>
  /\ UNCHANGED <<pathVars, cacheVars, assetVars, renderVars, treeVars, pageVars>>

EmbedNext ==
  \/ ApplyPreprocessObsidianMarkdown

(***************************************************************************)
(* Claims about the embed preprocessor                                     *)
(***************************************************************************)
Preprocessed == embedResult.op = "preprocessObsidianMarkdown"

\* number of '/' at the start of s
LeadingSlashes(s) ==
  CHOOSE k \in 0..Len(s) :
    /\ \A i \in 1..k : s[i] = SLASH
    /\ k < Len(s) => s[k + 1] # SLASH

\* the rewritten text of an embed whose target became target
RewrittenAs(target) ==
  embedInput.before \o <<"!", "[">> \o trim(embedInput.rawAlt) \o <<"]", "(">>
    \o (IF rootRelativeFlag THEN <<SLASH>> ELSE <<>>) \o target \o <<")">>
    \o embedInput.after

\* the target trimmed and with its backslashes turned into slashes
Normalized(rawTarget) == replaceBackslashes(trim(rawTarget))

\* C19 as stated: each embed becomes '![alt](target)' with the target
\* trimmed, backslashes turned into slashes, and a single leading slash or a
\* leading './' stripped; text with no embed is unchanged.
EmbedStripsOneSlashOrDotSlash ==
  Preprocessed =>
    IF embedInput.kind = "plain" THEN embedResult.value = markdownOf(embedInput)
    ELSE LET t == Normalized(embedInput.rawTarget)
         IN embedResult.value =
              RewrittenAs(IF startsWith(t, <<SLASH>>) THEN Tail(t)
                          ELSE IF startsWith(t, STR_DOT_SLASH) THEN sliceFrom(t, 2)
                          ELSE t)

\* C19 amended: each embed becomes '![alt](target)' - '![alt](/target)' with
\* rootRelative - where alt is trimmed (empty when absent) and the target is
\* trimmed, has its backslashes turned into slashes, then all its leading
\* slashes stripped, then one leading './' stripped; text with no embed is
\* unchanged.
EmbedStripsSlashesThenDotSlash ==
  Preprocessed =>
    IF embedInput.kind = "plain" THEN embedResult.value = markdownOf(embedInput)
    ELSE LET t == Normalized(embedInput.rawTarget)
             u == sliceFrom(t, LeadingSlashes(t))
         IN embedResult.value =
              RewrittenAs(IF startsWith(u, STR_DOT_SLASH) THEN sliceFrom(u, 2) ELSE u)

EmbedStripsSlashesThenDotSlashWitness ==
  /\ Preprocessed
  /\ rootRelativeFlag
  /\ embedInput = Embed(<<>>, STR_DIAGRAM, TRUE, STR_A_DIAGRAM, <<>>)
  /\ embedResult.value =
       <<"!", "[">> \o STR_A_DIAGRAM \o <<"]", "(", "/">> \o STR_DIAGRAM \o <<")">>

\* the target written between '](' and ')' of the rewritten embed
RewrittenTarget ==
  SubSeq(embedResult.value,
         Len(embedInput.before) + 2 + Len(trim(embedInput.rawAlt)) + 2 + 1,
         Len(embedResult.value) - Len(embedInput.after) - 1)

\* C20: with rootRelative, the rewritten target of every embed starts with
\* exactly one '/': it never starts with '//'.
RootRelativeTargetStartsWithOneSlash ==
  (Preprocessed /\ rootRelativeFlag /\ embedInput.kind = "embed") =>
    LeadingSlashes(RewrittenTarget) = 1

(***************************************************************************)
(* HTML sanitizer (lib/markdown-utils.ts) at the end of                    *)
(* renderMarkdownToHtml (lib/docs.ts)                                      *)
(*                                                                         *)
(* HTML is a list of nodes; a node has a tag ("#text" for a text node), a  *)
(* set of attribute names, a text and its child nodes.                     *)
(***************************************************************************)
MaxNodes == 2      \* most top-level nodes of a rendered body

ALLOWED_TAGS ==
  {"h1", "h2", "h3", "h4", "h5", "h6", "p", "div", "span", "br", "hr", "ul",
   "ol", "li", "a", "strong", "b", "em", "i", "del", "s", "mark", "sub",
   "sup", "small", "abbr", "blockquote", "pre", "code", "table", "thead",
   "tbody", "tfoot", "tr", "th", "td", "caption", "colgroup", "col", "img",
   "figure", "figcaption", "details", "summary", "dl", "dt", "dd", "input",
   "button"}

ALLOWED_ATTR ==
  {"href", "src", "alt", "title", "id", "class", "target", "rel", "width",
   "height", "loading", "type", "aria-label", "aria-hidden", "colspan",
   "rowspan", "scope", "checked", "disabled"}

\* DOMPurify's defaults that the call leaves as they are: text nodes stay
\* (KEEP_CONTENT), the children of a removed element stay unless its tag is
\* one of FORBID_CONTENTS, data-* and aria-* attributes stay
\* (ALLOW_DATA_ATTR, ALLOW_ARIA_ATTR)
TEXT_NODE == "#text"

FORBID_CONTENTS ==
  {"annotation-xml", "audio", "colgroup", "desc", "foreignobject", "head",
   "iframe", "math", "mi", "mn", "mo", "ms", "mtext", "noembed", "noframes",
   "noscript", "plaintext", "script", "style", "svg", "template", "thead",
   "title", "video", "xmp"}

\* attribute names of the inputs that match /^data-[\-\w.·-￿]+$/
DATA_ATTR == {"data-x"}
\* attribute names of the inputs that match /^aria-[\-\w]+$/
ARIA_ATTR == {"aria-label", "aria-hidden", "aria-live"}

isValidAttribute(name) ==
  \/ name \in DATA_ATTR
  \/ name \in ARIA_ATTR
  \/ name \in ALLOWED_ATTR

Text(t) == [tag |-> TEXT_NODE, attrs |-> {}, text |-> t, children |-> <<>>]
Element(tag, attrs, children) ==
  [tag |-> tag, attrs |-> attrs, text |-> "", children |-> children]

\* DOMPurify.sanitize walks the nodes in document order: an element whose
\* tag is not allowed is removed, its children taking its place (and being
\* walked next) unless the tag is one of FORBID_CONTENTS; of an element
\* that stays, the attributes that are not valid are removed
RECURSIVE sanitizeNodes(_)
sanitizeNodes(nodes) ==
  IF nodes = <<>> THEN <<>>
  ELSE LET node == Head(nodes) IN
       IF node.tag # TEXT_NODE /\ node.tag \notin ALLOWED_TAGS
       THEN IF node.tag \notin FORBID_CONTENTS
            THEN sanitizeNodes(node.children \o Tail(nodes))
            ELSE sanitizeNodes(Tail(nodes))
       ELSE << [node EXCEPT
                  !.attrs = {a \in node.attrs : isValidAttribute(a)},
                  !.children = sanitizeNodes(node.children)] >>
            \o sanitizeNodes(Tail(nodes))

sanitizeHtml(html) == sanitizeNodes(html)

\* ---- inputs ----
STR_OK == "ok"
STR_ALERT == "alert(1)"

InputTags == {"p", "a", "script", "form"}
InnerNodes ==
  {Text(STR_OK), Text(STR_ALERT),
   Element("script", {}, <<Text(STR_ALERT)>>),
   Element("p", {"onclick"}, <<>>)}
TopAttrs == {{}, {"href", "onclick"}, {"data-x"}, {"aria-live"}}
TopNodes ==
  {Text(STR_OK)} \cup
  {Element(tag, attrs, children) :
     tag \in InputTags, attrs \in TopAttrs,
     children \in {<<>>} \cup {<<n>> : n \in InnerNodes}}

RawHtmls == UNION {[1..n -> TopNodes] : n \in 0..MaxNodes}

NoHtml == <<Text("none")>>

SanitizeInit ==
  /\ rawHtml \in RawHtmls
  /\ contentHtml = NoHtml

SanitizeIdle ==
  /\ rawHtml = <<>>
  /\ contentHtml = NoHtml

\* return { html: sanitizeHtml(rawHtml), headings }
RenderReturns ==
  /\ contentHtml = NoHtml
  /\ contentHtml' = sanitizeHtml(rawHtml)
  /\ UNCHANGED rawHtml
  /\ UNCHANGED <<pathVars, cacheVars, assetVars, libVars, clientVars, handlerVars, slugVars, searchVars>>

\* the next build renders the document again
RenderBodyAgain ==
  /\ contentHtml # NoHtml
  /\ contentHtml' = NoHtml
  /\ UNCHANGED rawHtml
  /\ UNCHANGED <<pathVars, cacheVars, assetVars, libVars, clientVars, handlerVars, slugVars, searchVars>>

SanitizeNext ==
  \/ RenderReturns
  \/ RenderBodyAgain

(***************************************************************************)
(* Claims about the sanitizer                                              *)
(***************************************************************************)
RECURSIVE TagsOf(_)
TagsOf(nodes) ==
  IF nodes = <<>> THEN {}
  ELSE LET node == Head(nodes) IN
       (IF node.tag = TEXT_NODE THEN {} ELSE {node.tag})
       \cup TagsOf(node.children) \cup TagsOf(Tail(nodes))

RECURSIVE AttrsOf(_)
AttrsOf(nodes) ==
  IF nodes = <<>> THEN {}
  ELSE LET node == Head(nodes) IN
       node.attrs \cup AttrsOf(node.children) \cup AttrsOf(Tail(nodes))

ScriptThenParagraph ==
  << Element("script", {}, <<Text(STR_ALERT)>>),
     Element("p", {}, <<Text(STR_OK)>>) >>

\* C21: the html of every render contains only tags and attributes of the
\* fixed allow-list, and '<script>alert(1)</script><p>ok</p>' is rendered
\* as '<p>ok</p>'
SanitizedHtmlIsAllowListed ==
  contentHtml # NoHtml =>
    /\ TagsOf(contentHtml) \subseteq ALLOWED_TAGS
    /\ AttrsOf(contentHtml) \subseteq ALLOWED_ATTR
    /\ rawHtml = ScriptThenParagraph =>
         contentHtml = <<Element("p", {}, <<Text(STR_OK)>>)>>

(***************************************************************************)
(* The callers of the accessors: docsManifestHandler                       *)
(* (pages/api/docs-manifest.ts) and getStaticProps                         *)
(* (pages/docs/[[...slug]].tsx)                                            *)
(***************************************************************************)
\* the accessors each caller calls, in order
AccessorsOf(kind) ==
  IF kind = "manifest" THEN <<"getDocsTree", "getDocsSearchEntries">>
  ELSE <<"getAllDocs", "getDocsTree", "getDocsSearchEntries">>

NotServed == [pending |-> TRUE]

HandlerIdle ==
  /\ handlerKind = "none"
  /\ handlerCalls = <<>>
  /\ handlerServed = NotServed

\* a server process over some content tree, nothing requested yet
HandlerInit ==
  /\ CacheInit
  /\ HandlerIdle

\* a request for the manifest arrives, or a docs page is to be generated
HandlerStarts ==
  /\ handlerKind = "none" \/ handlerServed # NotServed
  /\ handlerKind' \in {"manifest", "staticProps"}
  /\ handlerCalls' = <<>>
  /\ handlerServed' = NotServed
  /\ UNCHANGED <<pathVars, cacheVars, assetVars, libVars, clientVars, sanitizeVars, slugVars, searchVars>>

\* the next accessor call of the caller: getSnapshot() and one member of
\* what it returns
AccessorCallReturning(out) ==
  /\ CacheAccess(out)
  /\ handlerCalls' = Append(handlerCalls, out.result)
  /\ UNCHANGED <<handlerKind, handlerServed>>
  /\ UNCHANGED <<pathVars, assetVars, libVars, clientVars, sanitizeVars, slugVars, searchVars>>

AccessorCall ==
  /\ handlerKind # "none"
  /\ Len(handlerCalls) < Len(AccessorsOf(handlerKind))
  /\ \E writable \in BOOLEAN :
       AccessorCallReturning(getSnapshot(nodeEnv, rootExists, files, disk,
                                         writable, cachedSnapshot, cachedVersion))

\* res.status(200).json({ searchEntries, tree }) /
\* return { props: { currentDoc, initialSearchEntries, initialTree } }
HandlerServes ==
  /\ handlerKind # "none"
  /\ handlerServed = NotServed
  /\ Len(handlerCalls) = Len(AccessorsOf(handlerKind))
  /\ handlerServed' =
       IF handlerKind = "manifest"
       THEN [docs |-> <<>>,
             tree |-> handlerCalls[1].tree,
             searchEntries |-> handlerCalls[2].searchEntries]
       ELSE [docs |-> handlerCalls[1].docs,
             tree |-> handlerCalls[2].tree,
             searchEntries |-> handlerCalls[3].searchEntries]
  /\ UNCHANGED <<handlerKind, handlerCalls>>
  /\ UNCHANGED <<pathVars, cacheVars, assetVars, libVars, clientVars, sanitizeVars, slugVars, searchVars>>

HandlerNext ==
  \/ HandlerStarts
  \/ AccessorCall
  \/ HandlerServes
  \/ WriteFile
  \/ RemoveFile

(***************************************************************************)
(* Claims about the callers of the accessors                               *)
(***************************************************************************)
\* C26: the parts a manifest response or a getStaticProps call serves all
\* belong to one snapshot that getSnapshot returned to it
PartsComeFromOneSnapshot ==
  handlerServed # NotServed =>
    \E i \in 1..Len(handlerCalls) :
       /\ handlerServed.tree = handlerCalls[i].tree
       /\ handlerServed.searchEntries = handlerCalls[i].searchEntries
       /\ handlerKind = "staticProps" => handlerServed.docs = handlerCalls[i].docs

(***************************************************************************)
(* slugify over arbitrary texts (lib/markdown-utils.ts)                    *)
(***************************************************************************)
\* length of the texts slugify is applied to
MaxSlugLen == 4

\* a letter of each case, both whitespace characters, the hyphen, and two
\* characters of the punctuation class
SlugChars == {"a", "A", " ", "\t", "-", "!", "."}
SlugTexts == UNION {[1..n -> SlugChars] : n \in 0..MaxSlugLen}

NoSlug == <<"none">>

SlugInit ==
  /\ slugText \in SlugTexts
  /\ slugOnce = NoSlug
  /\ slugTwice = NoSlug

SlugIdle ==
  /\ slugText = <<>>
  /\ slugOnce = NoSlug
  /\ slugTwice = NoSlug

ApplySlugify ==
  /\ slugOnce = NoSlug
  /\ slugOnce' = slugify(slugText)
  /\ UNCHANGED <<slugText, slugTwice>>
  /\ UNCHANGED <<pathVars, cacheVars, assetVars, libVars, clientVars, sanitizeVars, handlerVars, searchVars>>

\* slugify applied to what it returned
ApplySlugifyAgain ==
  /\ slugOnce # NoSlug
  /\ slugTwice = NoSlug
  /\ slugTwice' = slugify(slugOnce)
  /\ UNCHANGED <<slugText, slugOnce>>
  /\ UNCHANGED <<pathVars, cacheVars, assetVars, libVars, clientVars, sanitizeVars, handlerVars, searchVars>>

SlugNext ==
  \/ ApplySlugify
  \/ ApplySlugifyAgain

(***************************************************************************)
(* Claims about slugify                                                    *)
(***************************************************************************)
\* C27: slugify(slugify(s)) = slugify(s), and slugify(s) contains no
\* whitespace, no two consecutive hyphens and no character of the stripped
\* punctuation class
SlugifyIsIdempotent ==
  /\ slugTwice # NoSlug => slugTwice = slugOnce
  /\ slugOnce # NoSlug =>
       /\ \A i \in 1..Len(slugOnce) :
            slugOnce[i] \notin Whitespace \cup SlugPunctuation
       /\ \A i \in 1..(Len(slugOnce) - 1) :
            ~(slugOnce[i] = "-" /\ slugOnce[i + 1] = "-")

\* C27 witness: 'A -!' became 'a-', and 'a-' stayed 'a-'
SlugifyIsIdempotentWitness ==
  /\ slugText = <<"A", " ", "-", "!">>
  /\ slugOnce = <<"a", "-">>
  /\ slugTwice = <<"a", "-">>

(***************************************************************************)
(* Docs search of DocsPage (pages/docs/[[...slug]].tsx)                    *)
(***************************************************************************)
\* most entries of a search index
MaxEntries == 3

\* String.prototype.includes
includes(s, sub) ==
  \E i \in 0..(Len(s) - Len(sub)) : SubSeq(s, i + 1, i + Len(sub)) = sub

\* `${entry.title} ${entry.description} ${entry.relPath}`.toLowerCase()
haystackOf(entry) ==
  toLowerCase(entry.title \o <<" ">> \o entry.description \o <<" ">> \o entry.relPath)

\* the weights of title and path exchanged
scoreOfWeightsExchanged(entry, query) ==
  (IF includes(toLowerCase(entry.title), query) THEN 2 ELSE 0)
  + (IF includes(toLowerCase(entry.relPath), query) THEN 3 ELSE 0)
  + (IF includes(haystackOf(entry), query) THEN 1 ELSE 0)

\* exactTitle + exactPath + weak
scoreOf(entry, query) ==
  (IF includes(toLowerCase(entry.title), query) THEN 3 ELSE 0)
  + (IF includes(toLowerCase(entry.relPath), query) THEN 2 ELSE 0)
  + (IF includes(haystackOf(entry), query) THEN 1 ELSE 0)

\* Array.prototype.sort with (a, b) => b.score - a.score: stable, so an
\* item goes behind the items that do not score less
RECURSIVE insertByScore(_, _)
insertByScore(sorted, item) ==
  IF Len(sorted) = 0 THEN <<item>>
  ELSE IF Head(sorted).score < item.score THEN <<item>> \o sorted
  ELSE <<Head(sorted)>> \o insertByScore(Tail(sorted), item)

RECURSIVE sortByScore(_)
sortByScore(items) ==
  IF Len(items) = 0 THEN <<>>
  ELSE insertByScore(sortByScore(SubSeq(items, 1, Len(items) - 1)),
                     items[Len(items)])

\* the body of the searchResults memo
searchResultsOf(searchEntries, rawQuery) ==
  LET query == toLowerCase(trim(rawQuery)) IN
  IF Len(query) = 0 THEN <<>>
  ELSE LET scored == [i \in 1..Len(searchEntries) |->
                        [entry |-> searchEntries[i], score |-> scoreOf(searchEntries[i], query)]]
           kept == SelectSeq(scored, LAMBDA item : item.score > 0)
           sorted == sortByScore(kept)
       IN [k \in 1..Len(sorted) |-> sorted[k].entry]

\* ---- inputs ----
STR_X_MD == <<"x", ".", "m", "d">>
STR_A_MD == <<"a", ".", "m", "d">>

SearchEntry(title, description, relPath) ==
  [title |-> title, description |-> description, relPath |-> relPath]

\* entries that a query for "a" scores 4, 3, 6, 1 and 0, and one that the
\* query "b a" finds across title and description
IndexEntries ==
  { SearchEntry(<<"a">>, <<>>, STR_X_MD),
    SearchEntry(<<"x">>, <<>>, STR_A_MD),
    SearchEntry(<<"A">>, <<>>, STR_A_MD),
    SearchEntry(<<"x">>, <<"a">>, STR_X_MD),
    SearchEntry(<<"x">>, <<>>, STR_X_MD),
    SearchEntry(<<"b">>, <<"a">>, STR_X_MD) }

SearchIndexes == UNION {[1..n -> IndexEntries] : n \in 0..MaxEntries}

SearchQueries ==
  { <<>>, <<" ">>, <<"a">>, <<" ", "A", " ">>, <<"b", " ", "a">>, <<"x">>,
    <<"M", "D">>, <<"z">> }

NoSearch == <<[pending |-> TRUE]>>

SearchInit ==
  /\ searchIndex \in SearchIndexes
  /\ searchQuery \in SearchQueries
  /\ searchResults = NoSearch

SearchIdle ==
  /\ searchIndex = <<>>
  /\ searchQuery = <<>>
  /\ searchResults = NoSearch

\* the memo is computed for the entries and the query of the render
ComputeSearchResults ==
  /\ searchResults = NoSearch
  /\ searchResults' = searchResultsOf(searchIndex, searchQuery)
  /\ UNCHANGED <<searchIndex, searchQuery>>
  /\ UNCHANGED <<pathVars, cacheVars, assetVars, libVars, clientVars, sanitizeVars,
                 handlerVars, slugVars>>

\* setSearchQuery: the reader types another query, the memo is recomputed
SetSearchQuery ==
  /\ searchResults # NoSearch
  /\ \E q \in SearchQueries :
       /\ q # searchQuery
       /\ searchQuery' = q
       /\ searchResults' = searchResultsOf(searchIndex, q)
  /\ UNCHANGED searchIndex
  /\ UNCHANGED <<pathVars, cacheVars, assetVars, libVars, clientVars, sanitizeVars,
                 handlerVars, slugVars>>

SearchNext ==
  \/ ComputeSearchResults
  \/ SetSearchQuery

(***************************************************************************)
(* Claims about the docs search                                            *)
(***************************************************************************)
\* the query as it is compared: trimmed and lower-cased
ComparedQuery == toLowerCase(trim(searchQuery))

\* 3 for the title, 2 for the relPath, 1 for the combined string
ClaimedScore(i) ==
  (IF includes(toLowerCase(searchIndex[i].title), ComparedQuery) THEN 3 ELSE 0)
  + (IF includes(toLowerCase(searchIndex[i].relPath), ComparedQuery) THEN 2 ELSE 0)
  + (IF includes(toLowerCase(searchIndex[i].title \o <<" ">>
                               \o searchIndex[i].description \o <<" ">>
                               \o searchIndex[i].relPath), ComparedQuery)
     THEN 1 ELSE 0)

\* positions of the entries whose combined string contains the query
Matching ==
  {i \in 1..Len(searchIndex) :
     includes(toLowerCase(searchIndex[i].title \o <<" ">>
                            \o searchIndex[i].description \o <<" ">>
                            \o searchIndex[i].relPath), ComparedQuery)}

\* number of matching entries that come before entry i in the result: those
\* of higher score, and those of equal score and lower index
RankOf(i) ==
  Cardinality({j \in Matching :
                 \/ ClaimedScore(j) > ClaimedScore(i)
                 \/ ClaimedScore(j) = ClaimedScore(i) /\ j < i})

\* C28: for a query that is not empty once trimmed, the results are exactly
\* the entries whose lower-cased 'title description relPath' contains the
\* trimmed, lower-cased query, by non-increasing score (3 for the title, 2
\* for the relPath, 1 for the combined string), entries of equal score in
\* index order; an empty or whitespace-only query gives no result
SearchResultsAreScored ==
  searchResults # NoSearch =>
    IF Len(ComparedQuery) = 0 THEN searchResults = <<>>
    ELSE /\ Len(searchResults) = Cardinality(Matching)
         /\ \A i \in Matching : searchResults[RankOf(i) + 1] = searchIndex[i]

\* C28 witness: the query ' A ' over entries scoring 1, 3 and 6, and one
\* that does not match, gives them by descending score
SearchResultsAreScoredWitness ==
  /\ searchQuery = <<" ", "A", " ">>
  /\ searchIndex = << SearchEntry(<<"x">>, <<"a">>, STR_X_MD),
                      SearchEntry(<<"x">>, <<>>, STR_A_MD),
                      SearchEntry(<<"A">>, <<>>, STR_A_MD) >>
  /\ searchResults = << SearchEntry(<<"A">>, <<>>, STR_A_MD),
                        SearchEntry(<<"x">>, <<>>, STR_A_MD),
                        SearchEntry(<<"x">>, <<"a">>, STR_X_MD) >>

(***************************************************************************)
(* Route-loading overlay of App (pages/_app.tsx)                           *)
(*                                                                         *)
(* The four router handlers and the two timer callbacks each run to        *)
(* completion.  A timer is known by its id, the call of onRouteStart that  *)
(* set it and its delay; the window fires timers in the order of their     *)
(* deadlines.                                                              *)
(***************************************************************************)
MaxRouteStarts == 8

SHOW_DELAY_MS == 120
SAFETY_DELAY_MS == 8000

Timer(id, setBy, delay, callback) ==
  [id |-> id, setBy |-> setBy, delay |-> delay, callback |-> callback]

\* u is due before t whatever the time between two calls of onRouteStart
DueBefore(u, t) == u.setBy <= t.setBy /\ u.delay < t.delay

CanFire(t) == t \in pendingTimers /\ \A u \in pendingTimers : ~DueBefore(u, t)

\* clearRouteTimers that leaves the show timer set
clearRouteTimersShowKept(pending, showRef, safetyRef) ==
  { t \in pending : t.id # safetyRef }

\* clearRouteTimers: clearTimeout of the two refs (0 is null and no timer)
clearRouteTimers(pending, showRef, safetyRef) ==
  { t \in pending : t.id # showRef /\ t.id # safetyRef }

RouteSignals ==
  { "none", "routeChangeStart", "routeChangeComplete", "routeChangeError",
    "hashChangeComplete", "safetyTimer" }

OverlayInit ==
  /\ isRouteTransitioning = FALSE
  /\ routeAnimState = "entering"
  /\ routeShowTimerRef = 0
  /\ routeSafetyTimerRef = 0
  /\ pendingTimers = {}
  /\ timersSet = 0
  /\ routeInFlight = FALSE
  /\ lastRouteSignal = "none"
  /\ appMounted = TRUE

OverlayIdle ==
  /\ isRouteTransitioning = FALSE
  /\ routeAnimState = "entering"
  /\ routeShowTimerRef = 0
  /\ routeSafetyTimerRef = 0
  /\ pendingTimers = {}
  /\ timersSet = 0
  /\ routeInFlight = FALSE
  /\ lastRouteSignal = "none"
  /\ appMounted = FALSE

OverlayFrame ==
  UNCHANGED <<pathVars, cacheVars, assetVars, libVars, sanitizeVars,
              handlerVars, slugVars, searchVars, navVars>>

\* routeChangeStart
onRouteStart ==
  /\ appMounted
  /\ timersSet + 2 <= 2 * MaxRouteStarts
  /\ LET call == (timersSet \div 2) + 1
         show == Timer(timersSet + 1, call, SHOW_DELAY_MS, "show")
         safety == Timer(timersSet + 2, call, SAFETY_DELAY_MS, "safety")
     IN /\ pendingTimers' =
             clearRouteTimers(pendingTimers, routeShowTimerRef,
                              routeSafetyTimerRef) \cup {show, safety}
        /\ routeShowTimerRef' = show.id
        /\ routeSafetyTimerRef' = safety.id
  /\ routeAnimState' = "leaving"
  /\ timersSet' = timersSet + 2
  /\ routeInFlight' = TRUE
  /\ lastRouteSignal' = "routeChangeStart"
  /\ UNCHANGED <<isRouteTransitioning, appMounted>>
  /\ OverlayFrame

\* the callback of the show timer
ShowTimerFires ==
  /\ \E t \in pendingTimers :
       /\ t.callback = "show"
       /\ CanFire(t)
       /\ pendingTimers' = pendingTimers \ {t}
  /\ isRouteTransitioning' = TRUE
  /\ routeShowTimerRef' = 0
  /\ UNCHANGED <<routeAnimState, routeSafetyTimerRef, timersSet,
                 routeInFlight, lastRouteSignal, appMounted>>
  /\ OverlayFrame

\* the callback of the safety timer
SafetyTimerFires ==
  /\ \E t \in pendingTimers :
       /\ t.callback = "safety"
       /\ CanFire(t)
       /\ pendingTimers' = pendingTimers \ {t}
  /\ isRouteTransitioning' = FALSE
  /\ routeAnimState' = "entering"
  /\ routeSafetyTimerRef' = 0
  /\ lastRouteSignal' = "safetyTimer"
  /\ UNCHANGED <<routeShowTimerRef, timersSet, routeInFlight, appMounted>>
  /\ OverlayFrame

\* what onRouteDone and onHashChangeDone do to the state
HideOverlay ==
  /\ pendingTimers' = clearRouteTimers(pendingTimers, routeShowTimerRef,
                                       routeSafetyTimerRef)
  /\ routeShowTimerRef' = 0
  /\ routeSafetyTimerRef' = 0
  /\ routeAnimState' = "entering"
  /\ isRouteTransitioning' = FALSE

\* routeChangeComplete and routeChangeError: the router ends a route change
onRouteDone ==
  /\ appMounted
  /\ routeInFlight
  /\ HideOverlay
  /\ routeInFlight' = FALSE
  /\ lastRouteSignal' \in {"routeChangeComplete", "routeChangeError"}
  /\ UNCHANGED <<timersSet, appMounted>>
  /\ OverlayFrame

\* hashChangeComplete
onHashChangeDone ==
  /\ appMounted
  /\ HideOverlay
  /\ lastRouteSignal' = "hashChangeComplete"
  /\ UNCHANGED <<timersSet, routeInFlight, appMounted>>
  /\ OverlayFrame

\* the cleanup of the effect, when App is removed
OverlayCleanup ==
  /\ appMounted
  /\ appMounted' = FALSE
  /\ pendingTimers' = clearRouteTimers(pendingTimers, routeShowTimerRef,
                                       routeSafetyTimerRef)
  /\ routeShowTimerRef' = 0
  /\ routeSafetyTimerRef' = 0
  /\ UNCHANGED <<isRouteTransitioning, routeAnimState, timersSet,
                 routeInFlight, lastRouteSignal>>
  /\ OverlayFrame

OverlayNext ==
  \/ onRouteStart
  \/ ShowTimerFires
  \/ SafetyTimerFires
  \/ onRouteDone
  \/ onHashChangeDone
  \/ OverlayCleanup

\* the window fires every timer that stays set
OverlayFairness ==
  /\ WF_vars(ShowTimerFires)
  /\ WF_vars(SafetyTimerFires)

(***************************************************************************)
(* Claims about the overlay                                                *)
(***************************************************************************)
PendingOf(callback) == { t \in pendingTimers : t.callback = callback }

OverlaySafe ==
  /\ Cardinality(PendingOf("show")) <= 1
  /\ Cardinality(PendingOf("safety")) <= 1
  /\ lastRouteSignal # "routeChangeStart" =>
       /\ ~isRouteTransitioning
       /\ PendingOf("show") = {}

\* C29: at most one show timer and one safety timer are pending; once a
\* routeChangeComplete, routeChangeError, hashChangeComplete or the safety
\* timer was the last signal, the overlay is hidden and no show timer is
\* pending, so that it stays hidden until the next routeChangeStart; and a
\* shown overlay of the mounted App is hidden again later.
RouteOverlayCannotStayShown ==
  /\ []OverlaySafe
  /\ (appMounted /\ isRouteTransitioning) ~>
       (~isRouteTransitioning \/ ~appMounted)

\* C29 (witness): the overlay was shown, no router event ended the route
\* change, and the safety timer of a second start hid it
RouteOverlayCannotStayShownWitness ==
  /\ lastRouteSignal = "safetyTimer"
  /\ routeInFlight
  /\ timersSet >= 4
  /\ ~isRouteTransitioning
  /\ pendingTimers = {}

(***************************************************************************)
(* Navigation state of DocsPage (pages/docs/[[...slug]].tsx)               *)
(*                                                                         *)
(* A sidebar or search link calls onNavigate from its click handler; a     *)
(* plain click also makes the link hand its href to the router, a click    *)
(* with a modifier key or the middle button opens the href elsewhere and   *)
(* hands nothing to the router.                                            *)
(***************************************************************************)
MaxClicks == 3

NavLink(relPath, slug) == [relPath |-> relPath, href |-> toDocHref(slug)]

\* the links of the sidebar, one per document
NavLinks ==
  { NavLink(STR_A_MD, << <<"a">> >>),
    NavLink(STR_X_MD, << <<"x">> >>),
    NavLink(<<"b", "/", "c", ".", "m", "d">>, << <<"b">>, <<"c">> >>) }

isDocsRoute(url) == startsWith(url, STR_DOCS)

NavInit ==
  /\ isRouteLoading = FALSE
  /\ optimisticActivePath = <<>>
  /\ currentPath \in { l.relPath : l \in NavLinks }
  /\ navPush = null
  /\ navInFlight = null
  /\ navClicks = 0
  /\ docsMounted = TRUE

NavIdle ==
  /\ isRouteLoading = FALSE
  /\ optimisticActivePath = <<>>
  /\ currentPath = <<>>
  /\ navPush = null
  /\ navInFlight = null
  /\ navClicks = 0
  /\ docsMounted = FALSE

NavFrame ==
  UNCHANGED <<pathVars, cacheVars, assetVars, libVars, sanitizeVars,
              handlerVars, slugVars, searchVars, overlayVars>>

\* onNavigate, called by the click handler of a link
onNavigate(targetRelPath) ==
  IF targetRelPath = <<>> \/ targetRelPath = currentPath
  THEN UNCHANGED <<isRouteLoading, optimisticActivePath>>
  ELSE /\ optimisticActivePath' = targetRelPath
       /\ isRouteLoading' = TRUE

\* a click on a document link, once the router has taken the href of the
\* click before
ClickDocLink ==
  /\ docsMounted
  /\ navClicks < MaxClicks
  /\ navPush = null
  /\ \E l \in NavLinks, plain \in BOOLEAN :
       /\ onNavigate(l.relPath)
       /\ navPush' = IF plain THEN l.href ELSE navPush
  /\ navClicks' = navClicks + 1
  /\ UNCHANGED <<currentPath, navInFlight, docsMounted>>
  /\ NavFrame

\* a click on a link of the navigation bar that leaves the docs
ClickOtherLink ==
  /\ docsMounted
  /\ navClicks < MaxClicks
  /\ navPush = null
  /\ navPush' = STR_ABOUT
  /\ navClicks' = navClicks + 1
  /\ UNCHANGED <<isRouteLoading, optimisticActivePath, currentPath,
                 navInFlight, docsMounted>>
  /\ NavFrame

\* routeChangeStart: onRouteStart(url)
RouteChangeStart ==
  /\ docsMounted
  /\ navPush # null
  /\ navInFlight = null
  /\ navInFlight' = navPush
  /\ navPush' = null
  /\ isRouteLoading' = IF isDocsRoute(navPush) THEN TRUE ELSE isRouteLoading
  /\ UNCHANGED <<optimisticActivePath, currentPath, navClicks, docsMounted>>
  /\ NavFrame

\* routeChangeComplete: onRouteDone(url), then the page of the url is shown
\* and the effect on currentPath runs
RouteChangeComplete ==
  /\ docsMounted
  /\ navInFlight # null
  /\ navInFlight' = null
  /\ IF isDocsRoute(navInFlight)
     THEN /\ isRouteLoading' = FALSE
          /\ optimisticActivePath' = <<>>
          /\ currentPath' = (CHOOSE l \in NavLinks : l.href = navInFlight).relPath
          /\ UNCHANGED docsMounted
     ELSE /\ docsMounted' = FALSE
          /\ UNCHANGED <<isRouteLoading, optimisticActivePath, currentPath>>
  /\ UNCHANGED <<navPush, navClicks>>
  /\ NavFrame

\* routeChangeError: onRouteError(error, url)
RouteChangeError ==
  /\ docsMounted
  /\ navInFlight # null
  /\ navInFlight' = null
  /\ IF isDocsRoute(navInFlight)
     THEN /\ isRouteLoading' = FALSE
          /\ optimisticActivePath' = <<>>
     ELSE UNCHANGED <<isRouteLoading, optimisticActivePath>>
  /\ UNCHANGED <<currentPath, navPush, navClicks, docsMounted>>
  /\ NavFrame

NavNext ==
  \/ ClickDocLink
  \/ ClickOtherLink
  \/ RouteChangeStart
  \/ RouteChangeComplete
  \/ RouteChangeError

\* the router starts every change it was handed and ends every change it
\* started
NavFairness ==
  /\ WF_vars(RouteChangeStart)
  /\ WF_vars(RouteChangeComplete \/ RouteChangeError)

\* both client-side components at rest
ClientIdle == OverlayIdle /\ NavIdle

(***************************************************************************)
(* Claims about the navigation state                                       *)
(***************************************************************************)
NavSettled == ~isRouteLoading /\ optimisticActivePath = <<>>

\* C30: whenever the docs page has isRouteLoading set or an optimistic
\* active path, a later state has isRouteLoading false and the optimistic
\* path empty (or the docs page has been left).
NavigationLoadingEnds ==
  (docsMounted /\ ~NavSettled) ~> (NavSettled \/ ~docsMounted)

(***************************************************************************)
(* Specifications                                                          *)
(***************************************************************************)
\* the library hooks at rest
LibIdle == RenderIdle /\ TreeIdle /\ EmbedIdle

\* the page-level components at rest
PageIdle ==
  SanitizeIdle /\ HandlerIdle /\ SlugIdle /\ SearchIdle /\ ClientIdle

PathSpecInit ==
  PathInit /\ CacheIdle /\ AssetIdle /\ LibIdle /\ PageIdle

\* link resolution applied to every bounded input
SpecPath ==
  /\ PathSpecInit
  /\ [][PathNext]_vars

CacheSpecInit ==
  CacheInit /\ PathIdle /\ AssetIdle /\ LibIdle /\ PageIdle

\* the snapshot cache under a changing content directory
SpecCache ==
  /\ CacheSpecInit
  /\ [][CacheNext]_vars

AssetSpecInit ==
  AssetInit /\ PathIdle /\ CacheIdle /\ LibIdle /\ PageIdle

\* the asset handler with the content directory changing while it awaits
SpecAsset ==
  /\ AssetSpecInit
  /\ [][AssetNext]_vars

RenderSpecInit ==
  RenderInit /\ PathIdle /\ CacheIdle /\ AssetIdle /\ TreeIdle /\ EmbedIdle /\ PageIdle

\* the heading hook over every bounded document
SpecRender ==
  /\ RenderSpecInit
  /\ [][RenderNext]_vars

TreeSpecInit ==
  TreeInit /\ PathIdle /\ CacheIdle /\ AssetIdle /\ RenderIdle /\ EmbedIdle /\ PageIdle

\* the tree builder and the lookup over every bounded list of documents
SpecTree ==
  /\ TreeSpecInit
  /\ [][TreeNext]_vars

EmbedSpecInit ==
  EmbedInit /\ PathIdle /\ CacheIdle /\ AssetIdle /\ RenderIdle /\ TreeIdle /\ PageIdle

\* the embed preprocessor over every bounded embed
SpecEmbed ==
  /\ EmbedSpecInit
  /\ [][EmbedNext]_vars

SanitizeSpecInit ==
  SanitizeInit /\ PathIdle /\ CacheIdle /\ AssetIdle /\ LibIdle /\ HandlerIdle /\ SlugIdle /\ SearchIdle /\ ClientIdle

\* the sanitizer at the end of a render, over every bounded raw body
SpecSanitize ==
  /\ SanitizeSpecInit
  /\ [][SanitizeNext]_vars

StartupSpecInit ==
  StartupInit /\ PathIdle /\ AssetIdle /\ LibIdle /\ PageIdle

\* processes starting over a persisted file left by an earlier one
SpecStartup ==
  /\ StartupSpecInit
  /\ [][StartupNext]_vars

HandlerSpecInit ==
  HandlerInit /\ PathIdle /\ AssetIdle /\ LibIdle /\ SanitizeIdle /\ SlugIdle /\ SearchIdle /\ ClientIdle

\* the two callers of the accessors, with the content directory changing
\* between their calls
SpecHandlers ==
  /\ HandlerSpecInit
  /\ [][HandlerNext]_vars

SlugSpecInit ==
  SlugInit /\ PathIdle /\ CacheIdle /\ AssetIdle /\ LibIdle /\ SanitizeIdle /\ HandlerIdle /\ SearchIdle /\ ClientIdle

\* slugify applied to every bounded text, and to its own result
SpecSlug ==
  /\ SlugSpecInit
  /\ [][SlugNext]_vars

SearchSpecInit ==
  /\ SearchInit
  /\ PathIdle /\ CacheIdle /\ AssetIdle /\ LibIdle
  /\ SanitizeIdle /\ HandlerIdle /\ SlugIdle /\ ClientIdle

\* the search memo over every bounded index and query
SpecSearch ==
  /\ SearchSpecInit
  /\ [][SearchNext]_vars

OverlaySpecInit ==
  /\ OverlayInit /\ NavIdle
  /\ PathIdle /\ CacheIdle /\ AssetIdle /\ LibIdle
  /\ SanitizeIdle /\ HandlerIdle /\ SlugIdle /\ SearchIdle

\* the overlay of the app shell under every order of router events, with
\* the timers of the window firing
SpecOverlay ==
  /\ OverlaySpecInit
  /\ [][OverlayNext]_vars
  /\ OverlayFairness

NavSpecInit ==
  /\ NavInit /\ OverlayIdle
  /\ PathIdle /\ CacheIdle /\ AssetIdle /\ LibIdle
  /\ SanitizeIdle /\ HandlerIdle /\ SlugIdle /\ SearchIdle

\* the docs page under clicks on its links, with the router starting and
\* ending the route changes it is handed
SpecNav ==
  /\ NavSpecInit
  /\ [][NavNext]_vars
  /\ NavFairness

====
